---- MODULE Spec2Model ----
(***************************************************************************)
(* State-machine model of the claude-sheets-api request pipeline:          *)
(*   - RateLimiter   (lib/rate-limiter.ts): sliding-window admission,      *)
(*     recordSuccess, periodic cleanup;                                    *)
(*   - ClaudeWrapper (lib/claude-wrapper.ts): temp workspace, subprocess   *)
(*     with timeout, retry with exponential backoff;                       *)
(*   - POST handler  (app/api/claude-code/route.ts).                       *)
(* Time is the reading of Date.now() relative to module construction.      *)
(***************************************************************************)
EXTENDS Integers, Sequences, FiniteSets, TLC

\* ------------------------------------------------------------------ bounds
MaxTime == 4
MaxArrival == 0
TopRetries == 3

ClientIds == <<"c1", "c2">>
Clients == { ClientIds[i] : i \in 1 .. Len(ClientIds) }

\* Clock readings the model explores: for the small windows a dense run of
\* milliseconds, for the 60 s window the instants around its boundaries.
Instants(w) ==
    IF w > MaxTime THEN {0, 10, 20, w, w + 1000} ELSE 0 .. MaxTime

\* RATE_LIMITS.{WINDOW_MS, MAX_REQUESTS}: configured values explored.
RateConfigs ==
    { [w |-> 2, n |-> 1], [w |-> 3, n |-> 2], [w |-> 60000, n |-> 2] }

\* Concurrent POST invocations explored, and those among them whose
\* environment may fail (file system errors, failing or hanging
\* subprocesses); the subprocesses of the others close with code 0 in time.
Reqs == {1, 2}
Faulty == {1}

\* CLAUDE_CONFIG.{TIMEOUT, MAX_RETRIES}: configured values explored.
WrapperConfigs == { [timeout |-> 2, maxRetries |-> n] : n \in 1 .. TopRetries }

VARIABLES
    now,                    \* Date.now()
    windowMs,               \* RateLimiter.windowMs
    maxRequests,            \* RateLimiter.maxRequests
    skipSuccessfulRequests, \* RateLimiter.skipSuccessfulRequests
    requests,               \* RateLimiter.requests : Map<string, number[]>
    nextSweep,              \* due time of the setInterval(cleanup) timer
    admitted,               \* history: per client, the times of its latest
                            \*   maxRequests admitted checks, those less than
                            \*   windowMs old
    denied,                 \* history: per client, the oldest counted timestamp
                            \*   of its latest check if that was denied, else -1
    last,                   \* history: the limiter or clock operation
                            \*   performed last
    unswept,                \* history: the store as it would be had no
                            \*   cleanup run since the limiter was made
    stopped,                \* history: the owner of the limiter has shut
                            \*   down (or a test has torn it down)
    timeout,                \* ClaudeWrapper.timeout
    maxRetries,             \* ClaudeWrapper.maxRetries
    rq                      \* per request: the state of its POST invocation

rlVars == <<now, windowMs, maxRequests, skipSuccessfulRequests, requests,
            nextSweep, admitted, denied, last, unswept, stopped>>

cwVars == <<timeout, maxRetries>>

vars == <<now, windowMs, maxRequests, skipSuccessfulRequests, requests,
          nextSweep, admitted, denied, last, unswept, stopped, timeout,
          maxRetries, rq>>

\* ---------------------------------------------------------------- helpers
Max(a, b) == IF a >= b THEN a ELSE b

RECURSIVE SeqMin(_)
\* Math.min(...xs) of a non-empty array
SeqMin(xs) ==
    IF Len(xs) = 1 THEN xs[1]
    ELSE LET m == SeqMin(Tail(xs)) IN IF xs[1] <= m THEN xs[1] ELSE m

\* this.requests.get(clientId) || []
MapGet(m, k) == IF k \in DOMAIN m THEN m[k] ELSE <<>>

\* this.requests.set(clientId, v)
MapSet(m, k, v) == [x \in (DOMAIN m) \cup {k} |-> IF x = k THEN v ELSE m[x]]

\* ------------------------------------------------------------ RateLimiter
\* mutant of checkFilter: a timestamp exactly windowMs old is kept
checkFilterInclusive(clientRequests, windowStart) ==
    SelectSeq(clientRequests, LAMBDA timestamp : timestamp >= windowStart)

\* mutant of checkFilter: nothing is pruned
checkFilterNone(clientRequests, windowStart) == clientRequests

\* check, line 29: clientRequests.filter(timestamp => timestamp > windowStart)
checkFilter(clientRequests, windowStart) ==
    SelectSeq(clientRequests, LAMBDA timestamp : timestamp > windowStart)

\* mutant of limitReached: one request too many passes the test
limitReachedStrict(clientRequests) == Len(clientRequests) > maxRequests

\* check, line 32: the rate-limit test
limitReached(clientRequests) == Len(clientRequests) >= maxRequests

\* mutant of checkResult: remaining is computed before the push
checkResultBeforePush(reqs, clientId, t) ==
    LET windowStart == t - windowMs
        clientRequests == checkFilter(MapGet(reqs, clientId), windowStart)
    IN  IF limitReached(clientRequests)
        THEN [allowed |-> FALSE, remaining |-> 0,
              resetTime |-> Max(SeqMin(clientRequests) + windowMs - t, 0)]
        ELSE [allowed |-> TRUE,
              remaining |-> maxRequests - Len(clientRequests),
              resetTime |-> windowMs]

\* check: the RateLimitResult returned for clientId at time t
checkResult(reqs, clientId, t) ==
    LET windowStart == t - windowMs
        clientRequests == checkFilter(MapGet(reqs, clientId), windowStart)
    IN  IF limitReached(clientRequests)
        THEN LET oldestRequest == SeqMin(clientRequests)
                 resetTime == oldestRequest + windowMs - t
             IN  [allowed |-> FALSE, remaining |-> 0,
                  resetTime |-> Max(resetTime, 0)]
        ELSE [allowed |-> TRUE,
              remaining |-> maxRequests - (Len(clientRequests) + 1),
              resetTime |-> windowMs]

\* mutant of checkStore: the bucket written is the new timestamp alone, as
\* if the push were made on a copy read before an interleaved check's push
checkStoreLostUpdate(reqs, clientId, t) ==
    LET windowStart == t - windowMs
        clientRequests == checkFilter(MapGet(reqs, clientId), windowStart)
    IN  IF limitReached(clientRequests)
        THEN reqs
        ELSE MapSet(reqs, clientId, <<t>>)

\* check: the store it leaves (written only on admission, lines 44-45)
checkStore(reqs, clientId, t) ==
    LET windowStart == t - windowMs
        clientRequests == checkFilter(MapGet(reqs, clientId), windowStart)
    IN  IF limitReached(clientRequests)
        THEN reqs
        ELSE MapSet(reqs, clientId, Append(clientRequests, t))

\* mutant of recordSuccessStore: the last timestamp of every bucket is
\* removed
recordSuccessStoreEveryClient(reqs, clientId) ==
    IF skipSuccessfulRequests
    THEN [k \in DOMAIN reqs |->
            IF Len(reqs[k]) > 0 THEN SubSeq(reqs[k], 1, Len(reqs[k]) - 1)
            ELSE reqs[k]]
    ELSE reqs

\* recordSuccess: the store it leaves
recordSuccessStore(reqs, clientId) ==
    IF skipSuccessfulRequests
    THEN LET clientRequests == MapGet(reqs, clientId)
         IN  IF Len(clientRequests) > 0
             THEN MapSet(reqs, clientId,
                         SubSeq(clientRequests, 1, Len(clientRequests) - 1))
             ELSE reqs
    ELSE reqs

\* mutant of cleanupFilter: the comparison is reversed
cleanupFilterReversed(rs, windowStart) ==
    SelectSeq(rs, LAMBDA timestamp : timestamp < windowStart)

\* mutant of cleanupFilter: the sweep's window is one millisecond shorter
cleanupFilterEager(rs, windowStart) ==
    SelectSeq(rs, LAMBDA timestamp : timestamp > windowStart + 1)

\* cleanup, line 71: requests.filter(timestamp => timestamp > windowStart)
cleanupFilter(rs, windowStart) ==
    SelectSeq(rs, LAMBDA timestamp : timestamp > windowStart)

\* mutant of cleanupStore: a bucket left without timestamps stays in the Map
cleanupStoreKeepsEmpty(reqs, t) ==
    LET windowStart == t - windowMs
    IN  [k \in DOMAIN reqs |-> cleanupFilter(reqs[k], windowStart)]

\* cleanup: the store it leaves
cleanupStore(reqs, t) ==
    LET windowStart == t - windowMs
        kept == { k \in DOMAIN reqs :
                    Len(cleanupFilter(reqs[k], windowStart)) # 0 }
    IN  [k \in kept |-> cleanupFilter(reqs[k], windowStart)]

\* ------------------------------------------------- RateLimiter operations
\* the last n elements of xs
LatestN(xs, n) ==
    IF Len(xs) <= n THEN xs ELSE SubSeq(xs, Len(xs) - n + 1, Len(xs))

\* t lies in the trailing window (at - windowMs, at]
Within(t, at) == at - windowMs < t /\ t <= at

InitRL ==
    /\ now = 0
    /\ \E cfg \in RateConfigs : windowMs = cfg.w /\ maxRequests = cfg.n
    /\ skipSuccessfulRequests \in BOOLEAN
    /\ requests = << >>
    /\ nextSweep = windowMs
    /\ admitted = [c \in Clients |-> << >>]
    /\ denied = [c \in Clients |-> -1]
    /\ last = [op |-> "init"]
    /\ unswept = << >> /\ stopped = FALSE
    /\ timeout = 0 /\ maxRetries = 0
    /\ rq = << >>

\* Date.now() advances (the limiter on its own)
Tick ==
    /\ \E t \in Instants(windowMs) : t > now /\ now' = t
    /\ admitted' = [c \in Clients |->
                       SelectSeq(admitted[c], LAMBDA t : Within(t, now'))]
    /\ last' = [op |-> "tick"]
    /\ UNCHANGED <<windowMs, maxRequests, skipSuccessfulRequests, requests,
                   nextSweep, denied, unswept, stopped, timeout, maxRetries,
                   rq>>

\* rateLimiter.check(clientId): its effect on the limiter and the history
CheckOp(clientId) ==
    LET res == checkResult(requests, clientId, now)
        pre == MapGet(requests, clientId)
        counted == { i \in 1 .. Len(pre) : Within(pre[i], now) }
    IN  /\ requests' = checkStore(requests, clientId, now)
        /\ admitted' = [admitted EXCEPT ![clientId] =
                           IF res.allowed
                           THEN LatestN(Append(@, now), maxRequests)
                           ELSE @]
        /\ denied' = [denied EXCEPT ![clientId] =
                         IF res.allowed \/ counted = {} THEN -1
                         ELSE CHOOSE t \in { pre[i] : i \in counted } :
                                \A i \in counted : t <= pre[i]]
        /\ last' = [op |-> "check", clientId |-> clientId, t |-> now,
                    pre |-> pre, res |-> res,
                    prior |-> Len(admitted[clientId]),
                    wasDenied |-> denied[clientId]]

\* rateLimiter.check(clientId), called on its own
Check(clientId) ==
    /\ CheckOp(clientId)
    /\ UNCHANGED <<now, windowMs, maxRequests, skipSuccessfulRequests,
                   nextSweep, unswept, stopped, timeout, maxRetries, rq>>

\* rateLimiter.recordSuccess(clientId): its effect on the limiter
RecordSuccessOp(clientId) ==
    /\ requests' = recordSuccessStore(requests, clientId)
    /\ last' = [op |-> "recordSuccess", clientId |-> clientId]

\* rateLimiter.recordSuccess(clientId), called on its own
RecordSuccess(clientId) ==
    /\ RecordSuccessOp(clientId)
    /\ UNCHANGED <<now, windowMs, maxRequests, skipSuccessfulRequests,
                   nextSweep, admitted, denied, unswept, stopped, timeout,
                   maxRetries, rq>>

\* the setInterval(() => this.cleanup(), this.windowMs) callback
Cleanup ==
    /\ now >= nextSweep
    /\ requests' = cleanupStore(requests, now)
    /\ nextSweep' = now + windowMs
    /\ last' = [op |-> "cleanup"]
    /\ UNCHANGED <<now, windowMs, maxRequests, skipSuccessfulRequests,
                   admitted, denied, unswept, stopped, timeout, maxRetries,
                   rq>>

NextRL ==
    \/ Tick
    \/ \E c \in Clients : Check(c)
    \/ \E c \in Clients : RecordSuccess(c)
    \/ Cleanup

SpecRL == InitRL /\ [][NextRL]_vars

NextCheckSweep ==
    \/ Tick
    \/ \E c \in Clients : Check(c)
    \/ Cleanup

SpecCheckSweep == InitRL /\ [][NextCheckSweep]_vars

\* rateLimiter.check(clientId), made on the store and on the store no
\* cleanup has touched
CheckBoth(clientId) ==
    /\ CheckOp(clientId)
    /\ unswept' = checkStore(unswept, clientId, now)
    /\ UNCHANGED <<now, windowMs, maxRequests, skipSuccessfulRequests,
                   nextSweep, stopped, timeout, maxRetries, rq>>

NextSweepTwin ==
    \/ Tick
    \/ \E c \in Clients : CheckBoth(c)
    \/ Cleanup

SpecSweepTwin == InitRL /\ [][NextSweepTwin]_vars

\* The owner of the limiter shuts down, or a test tears it down.  The class
\* has no method to call for it, and the constructor did not keep the
\* handle setInterval returned: nothing of the limiter changes.
Teardown ==
    /\ ~stopped
    /\ stopped' = TRUE
    /\ last' = [op |-> "teardown"]
    /\ UNCHANGED <<now, windowMs, maxRequests, skipSuccessfulRequests,
                   requests, nextSweep, admitted, denied, unswept, timeout,
                   maxRetries, rq>>

NextTeardown ==
    \/ Tick
    \/ \E c \in Clients : Check(c)
    \/ Cleanup
    \/ Teardown

SpecTeardown == InitRL /\ [][NextTeardown]_vars

\* rateLimiter.recordSuccess(clientId), made on the store and on the store
\* no cleanup has touched
RecordSuccessBoth(clientId) ==
    /\ RecordSuccessOp(clientId)
    /\ unswept' = recordSuccessStore(unswept, clientId)
    /\ UNCHANGED <<now, windowMs, maxRequests, skipSuccessfulRequests,
                   nextSweep, admitted, denied, stopped, timeout, maxRetries,
                   rq>>

\* a limiter with the skip-successful policy and a window the clock outlasts
InitStore == InitRL /\ skipSuccessfulRequests /\ windowMs <= MaxTime

NextStore ==
    \/ Tick
    \/ \E c \in Clients : CheckBoth(c)
    \/ \E c \in Clients : RecordSuccessBoth(c)
    \/ Cleanup

\* The clock goes on, and the event loop runs the setInterval callback once
\* it is due.
SpecStoreFair ==
    InitStore /\ [][NextStore]_vars /\ WF_vars(Tick) /\ WF_vars(Cleanup)

\* ---------------------------------------------------------- ClaudeWrapper
\* executeWithRetry, line 124: the factor of Math.pow(2, attempt - 1) * 1000
BackoffBase == 1000

\* a schedule that doubles from the first retry on: 2000, 4000, ...
waitTimeFromAttempt(attempt) == (2 ^ attempt) * BackoffBase

\* executeWithRetry, line 124: waitTime
waitTime(attempt) == (2 ^ (attempt - 1)) * BackoffBase

\* How a spawned subprocess behaves: "ok" closes with code 0 and "exit1" with
\* another code before the timeout fires, "error" fails to spawn (the error
\* event), "nostdin" fails to spawn leaving no stdin (line 190 rejects, and
\* the error event of the same tick clears the timer), "hang" is still
\* running when the timeout fires.
ChildKinds == {"ok", "exit1", "error", "nostdin", "hang"}

\* the behaviours explored for the subprocesses of request r
KindsOf(r) == IF r \in Faulty THEN ChildKinds ELSE {"ok"}

\* A POST invocation that has not arrived yet.
IdleRequest ==
    [pc |-> "idle",          \* the await the invocation is suspended at
     authValid |-> FALSE,    \* authResult.valid
     clientId |-> "none",    \* clientId
     rate |-> "none",        \* rateLimitResult
     wrote |-> FALSE,        \* rateLimiter.check changed the store
     stamp |-> -1,           \* the timestamp rateLimiter.check appended
     body |-> "none",        \* what request.json() and validateRequest met
     tempDir |-> FALSE,      \* execute: tempDir is non-null
     dir |-> "absent",       \* the temp directory on disk
     rmTried |-> FALSE,      \* cleanupTempDir has run its rm -rf
     attempt |-> 0,          \* executeWithRetry: attempt
     child |-> << >>,        \* one entry per executeClaude call
     wake |-> -1,            \* due time of the backoff setTimeout
     waits |-> << >>,        \* the waitTime values waited for
     lastError |-> "none",   \* executeWithRetry: lastError
     outcome |-> "none",     \* execute: "ok" or the error it throws
     output |-> 0,           \* the attempt whose stdout execute returned
     recorded |-> FALSE,     \* recordSuccess was called
     response |-> "none"]    \* the code of the response sent

\* a finally block that removes the workspace on the success path only
FinallyOnSuccessOnly(q) ==
    IF q.tempDir /\ q.outcome = "ok" THEN [q EXCEPT !.pc = "cleanup"]
    ELSE [q EXCEPT !.pc = "done", !.response = "INTERNAL_SERVER_ERROR"]

\* execute, lines 40-49: the finally block
Finally(q) ==
    IF q.tempDir THEN [q EXCEPT !.pc = "cleanup"]
    ELSE [q EXCEPT !.pc = "done", !.response = "INTERNAL_SERVER_ERROR"]

\* a retry loop that runs while attempt <= maxRetries + 1
FailedRetriesOnceMore(q, msg, t) ==
    IF q.attempt <= maxRetries
    THEN [q EXCEPT !.lastError = msg,
                   !.waits = Append(@, waitTime(q.attempt)),
                   !.wake = t + waitTime(q.attempt),
                   !.pc = "backoff"]
    ELSE Finally([q EXCEPT !.lastError = msg, !.outcome = "ExecutionFailed"])

\* executeWithRetry, lines 118-131: an attempt failed with message msg at t
Failed(q, msg, t) ==
    IF q.attempt < maxRetries
    THEN [q EXCEPT !.lastError = msg,
                   !.waits = Append(@, waitTime(q.attempt)),
                   !.wake = t + waitTime(q.attempt),
                   !.pc = "backoff"]
    ELSE Finally([q EXCEPT !.lastError = msg, !.outcome = "ExecutionFailed"])

\* executeWithRetry line 116, execute line 38: the attempt a delivered stdout
Succeeded(q, a) == Finally([q EXCEPT !.output = a, !.outcome = "ok"])

\* mutant of Spawned: the timeout is never armed
SpawnedWithoutTimeout(q, kind, t) ==
    LET running == kind \in {"ok", "exit1", "hang"}
        c == [kind |-> kind,
              state |-> IF running THEN "running"
                        ELSE IF kind = "error" THEN "spawnFailed" ELSE "dead",
              term |-> FALSE,
              timer |-> -1,
              settled |-> kind = "nostdin"]
        q1 == [q EXCEPT !.child = Append(@, c), !.pc = "running"]
    IN  IF kind = "nostdin" THEN Failed(q1, "stdin", t) ELSE q1

\* executeClaude, lines 135-192: spawn, arm the timeout, write the prompt
Spawned(q, kind, t) ==
    LET running == kind \in {"ok", "exit1", "hang"}
        c == [kind |-> kind,
              state |-> IF running THEN "running"
                        ELSE IF kind = "error" THEN "spawnFailed" ELSE "dead",
              term |-> FALSE,
              timer |-> IF kind = "nostdin" THEN -1 ELSE t + timeout,
              settled |-> kind = "nostdin"]
        q1 == [q EXCEPT !.child = Append(@, c), !.pc = "running"]
    IN  IF kind = "nostdin" THEN Failed(q1, "stdin", t) ELSE q1

\* ----------------------------------------------------------- POST handler
\* the state after the module is loaded: the limiter and the wrapper are
\* constructed, the requests of rs are to come, maxRetries is one of retries
InitWith(rs, retries) ==
    /\ now = 0
    /\ \E cfg \in { c \in RateConfigs : c.w <= MaxTime } :
          windowMs = cfg.w /\ maxRequests = cfg.n
    /\ skipSuccessfulRequests \in BOOLEAN
    /\ requests = << >>
    /\ nextSweep = windowMs
    /\ admitted = [c \in Clients |-> << >>]
    /\ denied = [c \in Clients |-> -1]
    /\ last = [op |-> "init"]
    /\ unswept = << >> /\ stopped = FALSE
    /\ \E cfg \in WrapperConfigs :
          /\ cfg.maxRetries \in retries
          /\ timeout = cfg.timeout /\ maxRetries = cfg.maxRetries
    /\ rq = [r \in rs |-> IdleRequest]

\* two concurrent requests, with maxRetries = 2
Init == InitWith(Reqs, {2})

\* one request, with every maxRetries explored
InitExec == InitWith(Faulty, 1 .. TopRetries)

limiterUnchanged == UNCHANGED <<requests, admitted, denied, last>>

\* the due times of the armed setTimeout timers of the requests
Deadlines ==
    UNION { { rq[r].child[a].timer : a \in 1 .. Len(rq[r].child) }
              \cup { rq[r].wake } : r \in DOMAIN rq } \ { -1 }

\* Date.now() advances while requests are handled: to one of the first
\* milliseconds, or to the instant a timer falls due
Advance ==
    /\ \E t \in (0 .. MaxArrival) \cup Deadlines : t > now /\ now' = t
    /\ UNCHANGED <<windowMs, maxRequests, skipSuccessfulRequests, requests,
                   nextSweep, admitted, denied, last, unswept, stopped,
                   timeout, maxRetries, rq>>

configUnchanged ==
    UNCHANGED <<now, windowMs, maxRequests, skipSuccessfulRequests, nextSweep,
                unswept, stopped, timeout, maxRetries>>

\* POST, lines 17-25: the request arrives and validateAuth decides.
\* (Client ids are interchangeable: a new client id is the least unused one.)
Arrive(r) ==
    /\ rq[r].pc = "idle"
    /\ \E valid \in BOOLEAN, i \in 1 .. Len(ClientIds) :
          /\ \A j \in 1 .. i - 1 :
                \E p \in DOMAIN rq : rq[p].clientId = ClientIds[j]
          /\ ~valid => i = 1
          /\ rq' = [rq EXCEPT ![r].pc = "auth",
                              ![r].authValid = valid,
                              ![r].clientId =
                                  IF valid THEN ClientIds[i] ELSE "none"]
    /\ limiterUnchanged /\ configUnchanged

\* mutant of AfterAuth: the limiter is held by a request from its check to
\* the end of its execute call, and the others wait for it
AfterAuthExclusive(r) ==
    /\ rq[r].pc = "auth"
    /\ \A p \in DOMAIN rq \ {r} : rq[p].pc \notin {"running", "backoff"}
    /\ IF ~rq[r].authValid
       THEN /\ rq' = [rq EXCEPT ![r].pc = "done",
                                ![r].response = "UNAUTHORIZED"]
            /\ requests' = requests
       ELSE /\ requests' = checkStore(requests, rq[r].clientId, now)
            /\ rq' = [rq EXCEPT ![r].pc = "rate",
                                ![r].rate = checkResult(requests,
                                                        rq[r].clientId, now),
                                ![r].wrote = (requests' # requests),
                                ![r].stamp =
                                    IF checkResult(requests, rq[r].clientId,
                                                   now).allowed
                                    THEN now ELSE -1]
    /\ UNCHANGED <<admitted, denied, last>>
    /\ configUnchanged

\* POST, lines 26-47: reject as unauthorized, or check the rate limit
AfterAuth(r) ==
    /\ rq[r].pc = "auth"
    /\ IF ~rq[r].authValid
       THEN /\ rq' = [rq EXCEPT ![r].pc = "done",
                                ![r].response = "UNAUTHORIZED"]
            /\ requests' = requests
       ELSE /\ requests' = checkStore(requests, rq[r].clientId, now)
            /\ rq' = [rq EXCEPT ![r].pc = "rate",
                                ![r].rate = checkResult(requests,
                                                        rq[r].clientId, now),
                                ![r].wrote = (requests' # requests),
                                ![r].stamp =
                                    IF checkResult(requests, rq[r].clientId,
                                                   now).allowed
                                    THEN now ELSE -1]
    /\ UNCHANGED <<admitted, denied, last>>
    /\ configUnchanged

\* POST, lines 48-68: reject as rate limited, or read the body
AfterRate(r) ==
    /\ rq[r].pc = "rate"
    /\ rq' = IF ~rq[r].rate.allowed
             THEN [rq EXCEPT ![r].pc = "done",
                             ![r].response = "RATE_LIMIT_EXCEEDED"]
             ELSE [rq EXCEPT ![r].pc = "json"]
    /\ limiterUnchanged /\ configUnchanged

\* The request bodies: "unparseable" makes request.json() throw; "nonobject"
\* parses to a value that is no object (validateRequest, line 191);
\* "invalid" parses to an object validateRequest rejects; "valid" passes.
Bodies == {"unparseable", "nonobject", "invalid", "valid"}

\* a handler that creates the workspace before it validates the body
AfterJsonWorkspaceFirst(r) ==
    /\ rq[r].pc = "json"
    /\ \E body \in Bodies :
          rq' = CASE body = "unparseable" ->
                       [rq EXCEPT ![r].pc = "done", ![r].body = body,
                                  ![r].response = "INTERNAL_SERVER_ERROR"]
                  [] body \in {"nonobject", "invalid"} ->
                       [rq EXCEPT ![r].pc = "done", ![r].body = body,
                                  ![r].tempDir = TRUE,
                                  ![r].dir = "present",
                                  ![r].response = "INVALID_REQUEST"]
                  [] body = "valid" ->
                       [rq EXCEPT ![r].pc = "mkdtemp", ![r].body = body]
    /\ limiterUnchanged /\ configUnchanged

\* POST, lines 68-98 and execute, lines 22-26: request.json() settles; the
\* body is validated and execute starts with mkdtemp
AfterJson(r) ==
    /\ rq[r].pc = "json"
    /\ \E body \in Bodies :
          rq' = CASE body = "unparseable" ->
                       [rq EXCEPT ![r].pc = "done", ![r].body = body,
                                  ![r].response = "INTERNAL_SERVER_ERROR"]
                  [] body \in {"nonobject", "invalid"} ->
                       [rq EXCEPT ![r].pc = "done", ![r].body = body,
                                  ![r].response = "INVALID_REQUEST"]
                  [] body = "valid" ->
                       [rq EXCEPT ![r].pc = "mkdtemp", ![r].body = body]
    /\ limiterUnchanged /\ configUnchanged

\* execute, lines 26-31: mkdtemp settles; the prompt file is written
AfterMkdtemp(r) ==
    /\ rq[r].pc = "mkdtemp"
    /\ \E ok \in BOOLEAN :
          /\ ok \/ r \in Faulty
          /\ rq' = [rq EXCEPT ![r] =
                   IF ok
                   THEN [@ EXCEPT !.tempDir = TRUE, !.dir = "present",
                                  !.pc = "writeFile"]
                   ELSE Finally([@ EXCEPT !.outcome = "FsError"])]
    /\ limiterUnchanged /\ configUnchanged

\* execute, lines 31-34 and buildCommandAndPrompt, line 85: writeFile
\* settles; the prompt file is read back
AfterWriteFile(r) ==
    /\ rq[r].pc = "writeFile"
    /\ \E ok \in BOOLEAN :
          /\ ok \/ r \in Faulty
          /\ rq' = [rq EXCEPT ![r] =
                   IF ok THEN [@ EXCEPT !.pc = "readFile"]
                   ELSE Finally([@ EXCEPT !.outcome = "FsError"])]
    /\ limiterUnchanged /\ configUnchanged

\* buildCommandAndPrompt, lines 85-104 and executeWithRetry, lines 107-115:
\* readFile settles; the first attempt is started
AfterReadFile(r) ==
    /\ rq[r].pc = "readFile"
    /\ \/ /\ r \in Faulty
          /\ rq' = [rq EXCEPT ![r] =
                      Finally([@ EXCEPT !.outcome = "FsError"])]
       \/ \E kind \in KindsOf(r) :
            rq' = [rq EXCEPT ![r] =
                     Spawned([@ EXCEPT !.attempt = 1], kind, now)]
    /\ limiterUnchanged /\ configUnchanged

\* mutant of ChildClose: the close event settles the attempt again, and an
\* exit after the termination signal counts as an exit with code 0
ChildCloseSettlesAgain(r, a) ==
    /\ a \in 1 .. Len(rq[r].child)
    /\ rq[r].child[a].state = "running"
    /\ rq[r].child[a].kind = "hang" => rq[r].child[a].term
    /\ LET q == [rq[r] EXCEPT !.child[a].state = "exited",
                              !.child[a].timer = -1,
                              !.child[a].settled = TRUE]
       IN  rq' = [rq EXCEPT ![r] =
                    IF q.child[a].kind \in {"ok", "hang"}
                    THEN Succeeded(q, a)
                    ELSE Failed(q, "exit", now)]
    /\ limiterUnchanged /\ configUnchanged

\* executeClaude, lines 166-177: the close event of the child of attempt a
ChildClose(r, a) ==
    /\ a \in 1 .. Len(rq[r].child)
    /\ rq[r].child[a].state = "running"
    /\ rq[r].child[a].kind = "hang" => rq[r].child[a].term
    /\ LET q == [rq[r] EXCEPT !.child[a].state = "exited",
                              !.child[a].timer = -1,
                              !.child[a].settled = TRUE]
       IN  rq' = [rq EXCEPT ![r] =
                    IF rq[r].child[a].settled THEN q
                    ELSE IF q.child[a].kind = "ok" THEN Succeeded(q, a)
                    ELSE Failed(q, "exit", now)]
    /\ limiterUnchanged /\ configUnchanged

\* executeClaude, lines 180-183: the error event of the child of attempt a
ChildError(r, a) ==
    /\ a \in 1 .. Len(rq[r].child)
    /\ rq[r].child[a].state = "spawnFailed"
    /\ LET q == [rq[r] EXCEPT !.child[a].state = "dead",
                              !.child[a].timer = -1,
                              !.child[a].settled = TRUE]
       IN  rq' = [rq EXCEPT ![r] =
                    IF rq[r].child[a].settled THEN q
                    ELSE Failed(q, "spawn", now)]
    /\ limiterUnchanged /\ configUnchanged

\* executeClaude, lines 150-153: the timeout of attempt a fires
TimeoutFires(r, a) ==
    /\ a \in 1 .. Len(rq[r].child)
    /\ rq[r].child[a].timer # -1
    /\ now >= rq[r].child[a].timer
    /\ rq[r].child[a].kind = "hang"
    /\ LET q == [rq[r] EXCEPT !.child[a].term = TRUE,
                              !.child[a].timer = -1,
                              !.child[a].settled = TRUE]
       IN  rq' = [rq EXCEPT ![r] =
                    IF rq[r].child[a].settled THEN q
                    ELSE Failed(q, "timeout", now)]
    /\ limiterUnchanged /\ configUnchanged

\* executeWithRetry, lines 126 and 110-115: the backoff wait is over; the
\* next attempt is started
BackoffFires(r) ==
    /\ rq[r].pc = "backoff"
    /\ now >= rq[r].wake
    /\ \E kind \in KindsOf(r) :
          rq' = [rq EXCEPT ![r] =
                   Spawned([@ EXCEPT !.wake = -1, !.attempt = @ + 1],
                           kind, now)]
    /\ limiterUnchanged /\ configUnchanged

\* cleanupTempDir, lines 302-311, and POST, lines 100-143: rm -rf settles
\* (a failure is only logged); execute returns or throws, and the response
\* is sent
CleanupDone(r) ==
    /\ rq[r].pc = "cleanup"
    /\ \E rmOk \in BOOLEAN :
         /\ rmOk \/ r \in Faulty
         /\ LET q == [rq[r] EXCEPT !.rmTried = TRUE,
                                   !.dir = IF rmOk THEN "absent" ELSE @,
                                   !.pc = "done"]
            IN  IF q.outcome = "ok"
                THEN /\ requests' = recordSuccessStore(requests, q.clientId)
                     /\ rq' = [rq EXCEPT ![r] =
                                 [q EXCEPT !.recorded = TRUE,
                                           !.response = "OK"]]
                ELSE /\ rq' = [rq EXCEPT ![r] =
                                 [q EXCEPT !.response =
                                               "INTERNAL_SERVER_ERROR"]]
                     /\ requests' = requests
    /\ UNCHANGED <<admitted, denied, last>>
    /\ configUnchanged

\* the setInterval(() => this.cleanup(), this.windowMs) callback, while
\* requests are handled
Sweep ==
    /\ now >= nextSweep
    /\ requests' = cleanupStore(requests, now)
    /\ nextSweep' = now + windowMs
    /\ UNCHANGED <<now, windowMs, maxRequests, skipSuccessfulRequests,
                   admitted, denied, last, unswept, stopped, timeout,
                   maxRetries, rq>>

Next ==
    \/ Advance
    \/ Sweep
    \/ \E r \in DOMAIN rq : Arrive(r)
    \/ \E r \in DOMAIN rq : AfterAuth(r)
    \/ \E r \in DOMAIN rq : AfterRate(r)
    \/ \E r \in DOMAIN rq : AfterJson(r)
    \/ \E r \in DOMAIN rq : AfterMkdtemp(r)
    \/ \E r \in DOMAIN rq : AfterWriteFile(r)
    \/ \E r \in DOMAIN rq : AfterReadFile(r)
    \/ \E r \in DOMAIN rq : BackoffFires(r)
    \/ \E r \in DOMAIN rq : CleanupDone(r)
    \/ \E r \in DOMAIN rq : \E a \in DOMAIN rq[r].child : ChildClose(r, a)
    \/ \E r \in DOMAIN rq : \E a \in DOMAIN rq[r].child : ChildError(r, a)
    \/ \E r \in DOMAIN rq : \E a \in DOMAIN rq[r].child : TimeoutFires(r, a)

Spec == Init /\ [][Next]_vars

SpecExec == InitExec /\ [][Next]_vars

\* The event loop runs every callback that is ready: a continuation of the
\* handler whose awaited promise settled, a timer that fell due, the close
\* or error event of a child that ended; the clock moves on to the next
\* armed timer.  No request is assumed to arrive, and the sweep is not
\* needed.
EventLoopFairness ==
    /\ WF_vars(Advance)
    /\ \A r \in Faulty :
          /\ WF_vars(AfterAuth(r))
          /\ WF_vars(AfterRate(r))
          /\ WF_vars(AfterJson(r))
          /\ WF_vars(AfterMkdtemp(r))
          /\ WF_vars(AfterWriteFile(r))
          /\ WF_vars(AfterReadFile(r))
          /\ WF_vars(BackoffFires(r))
          /\ WF_vars(CleanupDone(r))
          /\ WF_vars(\E a \in DOMAIN rq[r].child : ChildClose(r, a))
          /\ WF_vars(\E a \in DOMAIN rq[r].child : ChildError(r, a))
          /\ WF_vars(\E a \in DOMAIN rq[r].child : TimeoutFires(r, a))

\* one request, under one configuration of the limiter: a limiter of any
\* configuration admits the only request
InitExecFair ==
    InitExec /\ windowMs = 2 /\ ~skipSuccessfulRequests

SpecExecFair == InitExecFair /\ [][Next]_vars /\ EventLoopFairness

\* ------------------------------------------------------------ validateAuth
\* request.headers.get(name) of a header the request does not carry
Absent == "(absent)"

\* SECURITY.API_SECRET
API_SECRET == "s3cret-key"

\* SECURITY.ALLOWED_ORIGINS
ALLOWED_ORIGINS == {"https://script.google.com"}

\* the credentials presented: the secret, and strings close to it
ApiKeys == {API_SECRET, "S3cret-key", "s3cret-key1", "s3cret-ke", "other"}

\* The authorization header, as headers.get returns it (trimmed): absent,
\* empty, a scheme with a credential, or the bare word Bearer. scheme is
\* the part startsWith('Bearer ') looks at, rest what substring(7) returns
\* when scheme is 'Bearer '.
AuthHeaders ==
    {[present |-> FALSE, scheme |-> "", rest |-> ""],
     [present |-> TRUE, scheme |-> "", rest |-> ""],
     [present |-> TRUE, scheme |-> "Bearer", rest |-> ""]}
    \cup [present : {TRUE}, scheme : {"Bearer ", "bearer ", "Basic "},
          rest : ApiKeys]

\* the origin header
Origins == {Absent, "", "https://script.google.com", "https://evil.example"}

\* The referer header: absent, empty, a text new URL() rejects, or a URL
\* with its protocol, hostname and port.
Referers ==
    {[kind |-> "absent", protocol |-> "", hostname |-> "", port |-> ""],
     [kind |-> "empty", protocol |-> "", hostname |-> "", port |-> ""],
     [kind |-> "malformed", protocol |-> "", hostname |-> "", port |-> ""],
     [kind |-> "url", protocol |-> "https:", hostname |-> "script.google.com",
      port |-> ""],
     [kind |-> "url", protocol |-> "https:", hostname |-> "script.google.com",
      port |-> "8443"],
     [kind |-> "url", protocol |-> "https:", hostname |-> "evil.example",
      port |-> ""]}

\* the user-agent header, as its words
UserAgents ==
    {[present |-> FALSE, words |-> << >>],
     [present |-> TRUE, words |-> <<"Mozilla/5.0">>],
     [present |-> TRUE, words |-> <<"Mozilla/5.0", "GoogleAppsScript">>]}

\* the x-requested-with header
RequestedWiths == {Absent, "GoogleAppsScript", "XMLHttpRequest"}

\* the x-session-id header
SessionHeaders == {Absent, "", "sess-A"}

\* the requests validateAuth is applied to
AuthRequests ==
    [authorization : AuthHeaders, origin : Origins, referer : Referers,
     userAgent : UserAgents, xRequestedWith : RequestedWiths,
     sessionId : SessionHeaders \ {""}, ip : {"10.0.0.1"}]

\* the clientId of a result that carries none
NoClient == << >>

\* validateAuth: a result with valid: false
AuthRejected(message) ==
    [valid |-> FALSE, clientId |-> NoClient, message |-> message,
     warned |-> FALSE]

\* generateClientId, lines 76-91: the identity is made of the source address,
\* the user-agent and the session id
generateClientId(h) ==
    <<IF h.ip = Absent THEN "unknown" ELSE h.ip,
      IF h.userAgent.present /\ h.userAgent.words # << >>
      THEN h.userAgent.words ELSE <<"unknown">>,
      IF h.sessionId = Absent THEN "" ELSE h.sessionId>>

\* line 11: !authHeader || !authHeader.startsWith('Bearer ')
missingOrMalformed(a) ==
    \/ ~a.present
    \/ a.scheme \o a.rest = ""
    \/ a.scheme # "Bearer "

\* a key test that turns away the empty credential only
keyRejectedOnlyWhenEmpty(apiKey) == apiKey = ""

\* line 20: !apiKey || apiKey !== SECURITY.API_SECRET
keyRejected(apiKey) == apiKey = "" \/ apiKey # API_SECRET

\* lines 10-25: the credential checks; rest is the result of what follows
credentialCheck(h, rest) ==
    IF missingOrMalformed(h.authorization)
    THEN AuthRejected("Missing or invalid Authorization header")
    ELSE IF keyRejected(h.authorization.rest)
         THEN AuthRejected("Invalid API key")
         ELSE rest

\* lines 28-36: the origin check
originCheck(h, rest) ==
    IF h.origin # Absent /\ h.origin # ""
       /\ h.origin \notin ALLOWED_ORIGINS
    THEN AuthRejected("Origin not allowed")
    ELSE rest

\* lines 38-47 and 67-73: the referer check; new URL throws on a text that
\* is no URL, and the catch block answers
refererCheck(h, rest) ==
    IF h.referer.kind \in {"absent", "empty"} THEN rest
    ELSE IF h.referer.kind = "malformed"
         THEN AuthRejected("Authentication failed")
         ELSE IF h.referer.protocol \o "//" \o h.referer.hostname
                     \notin ALLOWED_ORIGINS
              THEN AuthRejected("Referer not allowed")
              ELSE rest

\* line 53: userAgent.includes('GoogleAppsScript')
includesGas(ua) == \E i \in 1 .. Len(ua.words) : ua.words[i] = "GoogleAppsScript"

\* line 53: the request is not identified as coming from Apps Script
notIdentified(h) ==
    h.xRequestedWith # "GoogleAppsScript" /\ ~includesGas(h.userAgent)

\* a caller check that turns the unidentified caller away
callerCheckBlocking(h) ==
    IF notIdentified(h) THEN AuthRejected("Caller not allowed")
    ELSE [valid |-> TRUE, clientId |-> generateClientId(h),
          message |-> "Authentication successful", warned |-> FALSE]

\* lines 49-65: the caller check warns only; the result is valid
callerCheck(h) ==
    [valid |-> TRUE, clientId |-> generateClientId(h),
     message |-> "Authentication successful", warned |-> notIdentified(h)]

\* a validateAuth that checks the origin before the credential
validateAuthOriginFirst(h) ==
    originCheck(h, credentialCheck(h, refererCheck(h, callerCheck(h))))

\* validateAuth, lines 7-74
validateAuth(h) ==
    credentialCheck(h, originCheck(h, refererCheck(h, callerCheck(h))))

\* --------------------------------------------------------- validateRequest
\* API_CONFIG.MAX_PROMPT_LENGTH, scaled down
MAX_PROMPT_LENGTH == 3

\* The values of a parsed JSON body: t is the kind of value, and s, n or b
\* holds a string, a number or a boolean.
JsUndefined == [t |-> "undefined", s |-> "", n |-> 0, b |-> FALSE]
JsNull == [t |-> "null", s |-> "", n |-> 0, b |-> FALSE]
JsObject == [t |-> "object", s |-> "", n |-> 0, b |-> FALSE]
JsArray == [t |-> "array", s |-> "", n |-> 0, b |-> FALSE]
JsString(s) == [t |-> "string", s |-> s, n |-> 0, b |-> FALSE]
JsNumber(n) == [t |-> "number", s |-> "", n |-> n, b |-> FALSE]
JsBoolean(b) == [t |-> "boolean", s |-> "", n |-> 0, b |-> b]

\* typeof v
typeof(v) == IF v.t \in {"null", "object", "array"} THEN "object" ELSE v.t

\* v taken as a condition
truthy(v) ==
    CASE v.t \in {"undefined", "null"} -> FALSE
      [] v.t = "string" -> v.s # ""
      [] v.t = "number" -> v.n # 0
      [] v.t = "boolean" -> v.b
      [] OTHER -> TRUE

\* the strings of length n at most made of blanks and tabs
RECURSIVE WhitespaceStrings(_)
WhitespaceStrings(n) ==
    IF n = 0 THEN {""}
    ELSE LET shorter == WhitespaceStrings(n - 1)
         IN  shorter \cup { c \o w : c \in {" ", "\t"},
                                     w \in { x \in shorter : Len(x) = n - 1 } }

\* line 206: s.trim().length === 0
trimmedEmpty(s) == s \in WhitespaceStrings(Len(s))

\* the bodies whose fields are all undefined, of one kind of value
BareBody(self) ==
    [self |-> self, action |-> JsUndefined, prompt |-> JsUndefined,
     language |-> JsUndefined, framework |-> JsUndefined,
     options |-> JsUndefined, includeTests |-> JsUndefined,
     includeComments |-> JsUndefined, codeStyle |-> JsUndefined,
     maxTokens |-> JsUndefined]

\* The parsed bodies validateRequest is applied to: self is the value
\* itself, the other fields its properties (those of options flattened,
\* and undefined unless options is an object).
RequestBodies ==
    { BareBody(v) : v \in {JsNull, JsString("text"), JsNumber(7), JsArray} }
    \cup
    { b \in [self : {JsObject},
             action : {JsUndefined, JsString("generate"), JsString("review"),
                       JsString("delete"), JsNumber(1)},
             prompt : {JsUndefined, JsNumber(7)} \cup
                      { JsString(p) : p \in {"", " ", " \t", "p", " p ",
                                              "ppp", "pppp"} },
             language : {JsUndefined, JsString("ts"), JsNumber(0),
                         JsNumber(5)},
             framework : {JsUndefined, JsString("next"), JsBoolean(TRUE)},
             options : {JsUndefined, JsNumber(0), JsString("opts"), JsObject},
             includeTests : {JsUndefined, JsBoolean(TRUE), JsString("yes")},
             includeComments : {JsUndefined, JsNumber(1)},
             codeStyle : {JsUndefined, JsNumber(42)} \cup
                         { JsString(c) : c \in {"", "modern", "legacy",
                                                "retro"} },
             maxTokens : {JsUndefined, JsString("500")} \cup
                         { JsNumber(m) : m \in {99, 100, 8192, 8193} }] :
        b.options.t # "object" =>
            /\ b.includeTests = JsUndefined
            /\ b.includeComments = JsUndefined
            /\ b.codeStyle = JsUndefined
            /\ b.maxTokens = JsUndefined }

\* validateRequest: a result with valid: false
Invalid(message) == [valid |-> FALSE, message |-> message]

\* validateRequest, lines 223-248: the options
validateOptions(b) ==
    IF ~truthy(b.options) THEN [valid |-> TRUE, message |-> ""]
    ELSE IF typeof(b.options) # "object"
    THEN Invalid("Options must be an object")
    ELSE IF b.includeTests.t # "undefined"
            /\ typeof(b.includeTests) # "boolean"
    THEN Invalid("includeTests must be a boolean")
    ELSE IF b.includeComments.t # "undefined"
            /\ typeof(b.includeComments) # "boolean"
    THEN Invalid("includeComments must be a boolean")
    ELSE IF truthy(b.codeStyle) /\ typeof(b.codeStyle) = "string"
            /\ b.codeStyle.s \notin {"modern", "legacy"}
    THEN Invalid("codeStyle must be either modern or legacy")
    ELSE IF b.maxTokens.t # "undefined"
            /\ (typeof(b.maxTokens) # "number"
                  \/ b.maxTokens.n < 100 \/ b.maxTokens.n > 8192)
    THEN Invalid("maxTokens must be a number between 100 and 8192")
    ELSE [valid |-> TRUE, message |-> ""]

\* validateRequest, lines 189-251
validateRequest(b) ==
    IF typeof(b.self) # "object" \/ b.self.t = "null"
    THEN Invalid("Request body must be an object")
    ELSE IF ~truthy(b.action) \/ b.action.t # "string"
            \/ b.action.s \notin {"generate", "analyze", "optimize", "review"}
    THEN Invalid("Invalid or missing action")
    ELSE IF ~truthy(b.prompt) \/ typeof(b.prompt) # "string"
    THEN Invalid("Prompt is required and must be a string")
    ELSE IF trimmedEmpty(b.prompt.s)
    THEN Invalid("Prompt cannot be empty")
    ELSE IF Len(b.prompt.s) > MAX_PROMPT_LENGTH
    THEN Invalid("Prompt must be under MAX_PROMPT_LENGTH characters")
    ELSE IF truthy(b.language) /\ typeof(b.language) # "string"
    THEN Invalid("Language must be a string")
    ELSE IF truthy(b.framework) /\ typeof(b.framework) # "string"
    THEN Invalid("Framework must be a string")
    ELSE validateOptions(b)

\* ------------------------------------------------- POST: the response sent
\* generateSessionId, lines 185-187: the identifiers it may return
GeneratedIds == {"sess_0_k3x", "sess_0_p9q"}

\* a sessionId that is always generated
sessionIdGenerated(header, generated) == generated

\* POST, line 19: request.headers.get('x-session-id') || generateSessionId()
sessionIdOf(header, generated) ==
    IF header # Absent /\ header # "" THEN header ELSE generated

\* POST: the metadata of every response
metadataOf(sessionId) ==
    [keys |-> {"timestamp", "executionTime", "sessionId"},
     sessionId |-> sessionId]

\* POST, lines 28-42, 50-64, 72-86, 124-142: a response with success: false
errorResponse(code, message, sessionId) ==
    [success |-> FALSE, keys |-> {"success", "error", "metadata"},
     error |-> [keys |-> {"code", "message"}, code |-> code,
                message |-> message],
     metadata |-> metadataOf(sessionId)]

\* POST, lines 104-119: the response with success: true
successResponse(sessionId) ==
    [success |-> TRUE, keys |-> {"success", "data", "metadata"},
     error |-> [keys |-> {}, code |-> "", message |-> ""],
     metadata |-> metadataOf(sessionId)]

\* process.env.NODE_ENV
NodeEnvs == {Absent, "production", "development", "test"}

\* the messages of the errors POST catches
ErrorMessages ==
    {"Claude CLI failed after 3 attempts: Claude CLI timed out after 2ms",
     "Claude CLI failed after 3 attempts: Claude CLI exited with code 1",
     "Unexpected token in JSON"}

\* a message that carries the detail wherever NODE_ENV is not production
caughtMessageOutsideProduction(nodeEnv, message) ==
    IF nodeEnv # "production" THEN message
    ELSE "An unexpected error occurred"

\* POST, lines 128-130: the message of the response to a caught error
caughtMessage(nodeEnv, message) ==
    IF nodeEnv = "development" THEN message
    ELSE "An unexpected error occurred"

\* What POST meets on its way: the session header and the identifier
\* generateSessionId would return, the result of validateAuth, of
\* rateLimiter.check, the kind of body, whether execute returns, the
\* message of the error thrown if anything throws, and NODE_ENV.
PostInputs ==
    [sessionHeader : SessionHeaders, generated : GeneratedIds,
     authValid : BOOLEAN, allowed : BOOLEAN, body : Bodies,
     executed : BOOLEAN, errorMessage : ErrorMessages, nodeEnv : NodeEnvs]

\* POST, lines 17-144: the response, from what the stages returned
postResponse(x) ==
    LET sessionId == sessionIdOf(x.sessionHeader, x.generated)
        caught == errorResponse("INTERNAL_SERVER_ERROR",
                                caughtMessage(x.nodeEnv, x.errorMessage),
                                sessionId)
    IN  IF ~x.authValid
        THEN errorResponse("UNAUTHORIZED", "authResult.message", sessionId)
        ELSE IF ~x.allowed
        THEN errorResponse("RATE_LIMIT_EXCEEDED", "Rate limit exceeded",
                           sessionId)
        ELSE IF x.body = "unparseable" THEN caught
        ELSE IF x.body \in {"nonobject", "invalid"}
        THEN errorResponse("INVALID_REQUEST", "validationResult.message",
                           sessionId)
        ELSE IF ~x.executed THEN caught
        ELSE successResponse(sessionId)

\* ------------------------------------------------------------- parseOutput
\* A string is the sequence of its characters; LF is the line feed.
LF == "LF"

Whitespace == {" ", LF}

Digits == {"1"}

\* the characters \w matches
WordChars ==
    {"a", "b", "e", "g", "i", "j", "n", "o", "s", "t", "u", "v", "w", "x",
     "L", "R"} \cup Digits

\* String.prototype.toLowerCase, on a character
lowerChar(c) == IF c = "L" THEN "l" ELSE IF c = "R" THEN "r" ELSE c

\* String.prototype.toLowerCase
toLowerCase(s) == [i \in 1 .. Len(s) |-> lowerChar(s[i])]

\* s has p at index i
startsAt(s, p, i) ==
    i + Len(p) - 1 <= Len(s) /\ SubSeq(s, i, i + Len(p) - 1) = p

\* String.prototype.startsWith
startsWith(s, p) == startsAt(s, p, 1)

\* String.prototype.includes
includes(s, p) == \E i \in 1 .. Len(s) : startsAt(s, p, i)

\* String.prototype.trim
trim(s) ==
    LET inked == { i \in 1 .. Len(s) : s[i] \notin Whitespace }
    IN  IF inked = {} THEN << >>
        ELSE SubSeq(s, CHOOSE i \in inked : \A j \in inked : i <= j,
                       CHOOSE i \in inked : \A j \in inked : i >= j)

RECURSIVE split(_)
\* String.prototype.split('\n')
split(s) ==
    LET feeds == { i \in 1 .. Len(s) : s[i] = LF }
    IN  IF feeds = {} THEN <<s>>
        ELSE LET i == CHOOSE i \in feeds : \A j \in feeds : i <= j
             IN  <<SubSeq(s, 1, i - 1)>> \o split(SubSeq(s, i + 1, Len(s)))

RECURSIVE join(_)
\* Array.prototype.join('\n')
join(lines) ==
    IF Len(lines) = 0 THEN << >>
    ELSE IF Len(lines) = 1 THEN lines[1]
    ELSE lines[1] \o <<LF>> \o join(Tail(lines))

\* the backtick
Backtick == "backtick"

\* three backticks
Fence == <<Backtick, Backtick, Backtick>>

RECURSIVE runOf(_, _, _)
\* the length of the longest run of characters of the class cs in s from
\* index i on
runOf(s, i, cs) ==
    IF i <= Len(s) /\ s[i] \in cs THEN 1 + runOf(s, i + 1, cs) ELSE 0

\* parseOutput, line 199: codeBlockRegex tried at index i of output: the
\* fence, the \w characters, a line feed, then the shortest text that is
\* followed by a line feed and a fence
matchAt(output, i) ==
    LET j == i + 3 + runOf(output, i + 3, WordChars)
        closers == { k \in j + 1 .. Len(output) :
                       startsAt(output, <<LF>> \o Fence, k) }
        k == CHOOSE k \in closers : \A m \in closers : k <= m
    IN  IF /\ startsAt(output, Fence, i)
           /\ j <= Len(output) /\ output[j] = LF
           /\ closers # {}
        THEN [found |-> TRUE, group |-> SubSeq(output, j + 1, k - 1),
              lastIndex |-> k + 4]
        ELSE [found |-> FALSE, group |-> << >>, lastIndex |-> 0]

RECURSIVE codeBlocksFrom(_, _)
\* parseOutput, lines 199-205: the groups of the matches of codeBlockRegex
\* in output from index i on
codeBlocksFrom(output, i) ==
    IF i > Len(output) THEN << >>
    ELSE LET m == matchAt(output, i)
         IN  IF m.found
             THEN <<m.group>> \o codeBlocksFrom(output, m.lastIndex)
             ELSE codeBlocksFrom(output, i + 1)

\* extractExplanation, lines 242-250
extractExplanation(output) ==
    LET lines == split(output)
        explanationLines ==
            SelectSeq(lines, LAMBDA line :
                /\ ~startsWith(line, Fence)
                /\ trim(line) # << >>
                /\ ~startsWith(toLowerCase(line),
                               <<"l", "a", "n", "g", "u", "a", "g", "e", ":">>)
                /\ ~startsWith(toLowerCase(line),
                               <<"f", "r", "a", "m", "e", "w", "o", "r", "k",
                                 ":">>))
    IN  trim(join(explanationLines))

\* extractSection: the section from the first line that has a keyword on,
\* or the whole text
extractSection(output, keywords) ==
    LET lines == split(output)
        hits == { i \in 1 .. Len(lines) :
                    \E keyword \in keywords :
                        includes(toLowerCase(lines[i]), keyword) }
    IN  IF hits # {}
        THEN LET sectionStart == CHOOSE i \in hits : \A j \in hits : i <= j
             IN  trim(join(SubSeq(lines, sectionStart, Len(lines))))
        ELSE trim(output)

KwAnalysis == <<"a", "n", "a", "l", "y", "s", "i", "s">>

KwReview == <<"r", "e", "v", "i", "e", "w">>

KwAssessment == <<"a", "s", "s", "e", "s", "s", "m", "e", "n", "t">>

KwFeedback == <<"f", "e", "e", "d", "b", "a", "c", "k">>

KwSuggestions == <<"s", "u", "g", "g", "e", "s", "t", "i", "o", "n", "s">>

KwRecommendations ==
    <<"r", "e", "c", "o", "m", "m", "e", "n", "d", "a", "t", "i", "o", "n",
      "s">>

\* extractAnalysis, lines 252-254
extractAnalysis(output) ==
    extractSection(output, {KwAnalysis, KwReview, KwAssessment})

\* extractReview
extractReview(output) ==
    extractSection(output, {KwReview, KwFeedback, KwAssessment})

\* extractSuggestions, line 261: /^[-*]\s+/ or /^\d+\.\s+/ matches the line
isListItem(line) ==
    \/ /\ Len(line) >= 2
       /\ line[1] \in {"-", "*"}
       /\ line[2] \in Whitespace
    \/ LET d == runOf(line, 1, Digits)
       IN  /\ d >= 1
           /\ Len(line) >= d + 2
           /\ line[d + 1] = "."
           /\ line[d + 2] \in Whitespace

\* extractSuggestions, line 262: line.replace(/^[-*\d.]\s+/, ''): one
\* character of the class and the spaces after it are removed
stripMarker(line) ==
    IF /\ Len(line) >= 2
       /\ line[1] \in {"-", "*", "."} \cup Digits
       /\ line[2] \in Whitespace
    THEN SubSeq(line, 2 + runOf(line, 2, Whitespace), Len(line))
    ELSE line

\* extractSuggestions, lines 256-267
extractSuggestions(output) ==
    LET items == SelectSeq(split(output), isListItem)
        suggestions == [i \in 1 .. Len(items) |-> trim(stripMarker(items[i]))]
    IN  IF Len(suggestions) > 0 THEN suggestions
        ELSE <<extractSection(output, {KwSuggestions, KwRecommendations})>>

\* extractOptimizations
extractOptimizations(output) == extractSuggestions(output)

\* extractIssues
extractIssues(output) == extractSuggestions(output)

\* a field of ClaudeExecutionResult that was not assigned
Unset == [set |-> FALSE, v |-> << >>]

\* a field of ClaudeExecutionResult that was assigned v
Assigned(v) == [set |-> TRUE, v |-> v]

\* !field, of a string field of ClaudeExecutionResult
falsy(field) == ~field.set \/ field.v = << >>

\* execute's actions
ParseActions == {"generate", "analyze", "optimize", "review"}

\* parseOutput, lines 196-232: the result after the switch
actionResult(output, action) ==
    LET codeBlocks == codeBlocksFrom(output, 1)
        code == IF Len(codeBlocks) > 0 THEN Assigned(codeBlocks[1])
                ELSE Unset
    IN  IF action = "generate"
        THEN [code |-> code, analysis |-> Unset,
              explanation |-> Assigned(extractExplanation(output)),
              suggestions |-> Unset]
        ELSE IF action = "analyze"
        THEN [code |-> Unset, analysis |-> Assigned(extractAnalysis(output)),
              explanation |-> Unset,
              suggestions |-> Assigned(extractSuggestions(output))]
        ELSE IF action = "optimize"
        THEN [code |-> code, analysis |-> Unset, explanation |-> Unset,
              suggestions |-> Assigned(extractOptimizations(output))]
        ELSE IF action = "review"
        THEN [code |-> Unset, analysis |-> Assigned(extractReview(output)),
              explanation |-> Unset,
              suggestions |-> Assigned(extractIssues(output))]
        ELSE [code |-> Unset, analysis |-> Unset, explanation |-> Unset,
              suggestions |-> Unset]

\* a fallback that sets the explanation to the trimmed text
parseOutputFallbackTrimmed(output, action) ==
    LET result == actionResult(output, action)
    IN  IF /\ falsy(result.code) /\ falsy(result.analysis)
           /\ falsy(result.explanation)
        THEN [result EXCEPT !.explanation = Assigned(trim(output))]
        ELSE result

\* parseOutput, lines 195-240
parseOutput(output, action) ==
    LET result == actionResult(output, action)
    IN  IF /\ falsy(result.code) /\ falsy(result.analysis)
           /\ falsy(result.explanation)
        THEN [result EXCEPT !.explanation = Assigned(output)]
        ELSE result

\* the most lines of a text the subprocess prints
MaxLines == 3

\* the most lines of a text made of fences and code only
MaxFencedLines == 6

\* the lines the subprocess prints: an empty line, fences, prose, a line in
\* spaces, list items, a line with a dash but no space, a Language: line,
\* and lines with a keyword of a section
OutputLines ==
    { << >>, Fence, Fence \o <<"j", "s">>, <<"a">>, <<" ", "x", " ">>,
      <<"-", " ", "a">>, <<"*", " ", "b">>, <<"1", ".", " ", "a">>,
      <<"-", "a">>, <<"L", "a", "n", "g", "u", "a", "g", "e", ":">>,
      <<"R", "e", "v", "i", "e", "w">>, KwSuggestions }

\* the lines of a text of fenced blocks
FencedLines == { Fence, <<"a">>, <<"b">> }

\* the texts execute hands to parseOutput: stdout of the subprocess
Outputs ==
    { join(ls) : ls \in UNION { [1 .. n -> OutputLines] :
                                  n \in 1 .. MaxLines } }
    \cup
    { join(ls) : ls \in UNION { [1 .. n -> FencedLines] :
                                  n \in MaxLines + 1 .. MaxFencedLines } }

\* ------------------------------------------------- generateClientId, text
\* the printable characters, in the order of their codes from 32 on
Ascii ==
    <<" ", "!", "\"", "#", "$", "%", "&", "'", "(", ")", "*", "+", ",",
      "-", ".", "/", "0", "1", "2", "3", "4", "5", "6", "7", "8", "9", ":",
      ";", "<", "=", ">", "?", "@", "A", "B", "C", "D", "E", "F", "G", "H",
      "I", "J", "K", "L", "M", "N", "O", "P", "Q", "R", "S", "T", "U", "V",
      "W", "X", "Y", "Z", "[", "\\", "]", "^", "_", Backtick, "a", "b",
      "c", "d", "e", "f", "g", "h", "i", "j", "k", "l", "m", "n", "o", "p",
      "q", "r", "s", "t", "u", "v", "w", "x", "y", "z", "{", "|", "}", "~">>

\* line 85: String.prototype.charCodeAt, on a character
charCodeAt(c) == 31 + CHOOSE i \in DOMAIN Ascii : Ascii[i] = c

\* the weight of the upper half of a number kept as two halves
HalfWord == 65536

\* a JavaScript number that is an integer, kept exactly: hi * 65536 + lo
Wide(v) == [hi |-> v \div HalfWord, lo |-> v % HalfWord]

\* a - b on numbers
minus(a, b) ==
    [hi |-> a.hi - b.hi + ((a.lo - b.lo) \div HalfWord),
     lo |-> (a.lo - b.lo) % HalfWord]

\* a + b on numbers
plus(a, b) ==
    [hi |-> a.hi + b.hi + ((a.lo + b.lo) \div HalfWord),
     lo |-> (a.lo + b.lo) % HalfWord]

\* line 86: hash << 5, on a 32-bit integer: the upper five bits are lost and
\* bit 26 becomes the sign
shl5(hash) ==
    LET low27 == hash % 134217728
    IN  IF low27 >= 67108864 THEN (low27 - 134217728) * 32 ELSE low27 * 32

\* line 87: hash & hash, the conversion of a number to a 32-bit integer
ToInt32(w) ==
    LET hi == w.hi % HalfWord
    IN  (IF hi >= 32768 THEN hi - HalfWord ELSE hi) * HalfWord + w.lo

\* lines 86-87: one round of the loop
hashRound(hash, char) ==
    ToInt32(plus(minus(Wide(shl5(hash)), Wide(hash)), Wide(char)))

RECURSIVE hashLoop(_, _)
\* lines 84-88: the loop, from the values v.i and v.hash of its variables on
hashLoop(rawString, v) ==
    IF v.i >= Len(rawString) THEN v.hash
    ELSE hashLoop(rawString,
                  [i |-> v.i + 1,
                   hash |-> hashRound(v.hash,
                                      charCodeAt(rawString[v.i + 1]))])

\* lines 83-88: the hash of rawString
hashOf(rawString) == hashLoop(rawString, [i |-> 0, hash |-> 0])

\* a formatting that leaves the sign of the hash in place
mathAbsOmitted(w) == w

\* line 90: Math.abs
mathAbs(w) == IF w.hi < 0 THEN minus(Wide(0), w) ELSE w

\* the digits of radix 36
Digits36 ==
    <<"0", "1", "2", "3", "4", "5", "6", "7", "8", "9", "a", "b", "c", "d",
      "e", "f", "g", "h", "i", "j", "k", "l", "m", "n", "o", "p", "q", "r",
      "s", "t", "u", "v", "w", "x", "y", "z">>

RECURSIVE digits36(_)
\* the digits of a positive integer in radix 36, none for 0
digits36(n) ==
    IF n = 0 THEN << >>
    ELSE digits36(n \div 36) \o <<Digits36[(n % 36) + 1]>>

\* the digits of a number that is not negative, in radix 36
magnitude36(w) ==
    LET upper == w.hi % 36
        lower == upper * HalfWord + w.lo
    IN  digits36((w.hi \div 36) * HalfWord + (lower \div 36))
            \o <<Digits36[(lower % 36) + 1]>>

\* line 90: Number.prototype.toString(36), of an integer
toString36(w) ==
    IF w.hi < 0 THEN <<"-">> \o magnitude36(minus(Wide(0), w))
    ELSE magnitude36(w)

\* a header, or request.ip, that is there
Header(text) == [present |-> TRUE, text |-> text]

\* a header, or request.ip, that is not there
NoHeader == [present |-> FALSE, text |-> << >>]

\* x || fallback, on a text that may be missing
orElse(x, fallback) ==
    IF x.present /\ x.text # << >> THEN x.text ELSE fallback

\* the text 'unknown'
Unknown == <<"u", "n", "k", "n", "o", "w", "n">>

\* line 77: request.ip || request.headers.get('x-forwarded-for') || 'unknown'
ipOf(request) == orElse(request.ip, orElse(request.forwarded, Unknown))

\* line 78: request.headers.get('user-agent') || 'unknown'
userAgentTextOf(request) == orElse(request.userAgent, Unknown)

\* line 79: request.headers.get('x-session-id') || ''
sessionTextOf(request) == orElse(request.sessionId, << >>)

\* line 82: `${ip}-${userAgent}-${sessionId}`
rawStringOf(request) ==
    ipOf(request) \o <<"-">> \o userAgentTextOf(request) \o <<"-">>
        \o sessionTextOf(request)

\* line 90: the text before the digits
ClientPrefix == <<"c", "l", "i", "e", "n", "t", "_">>

\* generateClientId, lines 76-91, character by character
generateClientIdText(request) ==
    ClientPrefix
        \o toString36(mathAbs(Wide(hashOf(rawStringOf(request)))))

\* the addresses, user-agents and session ids of the requests
Addresses == {<<"1", "0", ".", "0", ".", "0", ".", "1">>,
              <<"1", "0", ".", "0", ".", "0", ".", "2">>}

AgentTexts == {Unknown, <<"G", "A", "S">>}

SessionTexts == {<<"l", "g", "a", "7", "n", "y", "f">>,
                 <<"s", "e", "s", "s", "-", "A">>}

\* the requests generateClientId is applied to: request.ip, and the headers
\* x-forwarded-for, user-agent, x-session-id and accept, each there or not,
\* the headers empty as well
ClientIdRequests ==
    [ip : {NoHeader} \cup {Header(a) : a \in Addresses},
     forwarded : {NoHeader, Header(<< >>)} \cup {Header(a) : a \in Addresses},
     userAgent : {NoHeader, Header(<< >>)} \cup {Header(u) : u \in AgentTexts},
     sessionId : {NoHeader, Header(<< >>)}
                    \cup {Header(s) : s \in SessionTexts},
     accept : {NoHeader, Header(<<"*", "/", "*">>)}]

\* --------------------------------------------------- the functions, called
\* the module is loaded, and one call is about to be made: of validateAuth
\* on a request, of validateRequest on a parsed body, of POST, or of
\* parseOutput on the stdout of a subprocess
InitCalls ==
    /\ now = 0
    /\ windowMs = 2 /\ maxRequests = 1
    /\ skipSuccessfulRequests = FALSE
    /\ requests = << >>
    /\ nextSweep = windowMs
    /\ admitted = [c \in Clients |-> << >>]
    /\ denied = [c \in Clients |-> -1]
    /\ unswept = << >> /\ stopped = FALSE
    /\ timeout = 0 /\ maxRetries = 0
    /\ rq = << >>
    /\ \/ \E h \in AuthRequests :
             last = [op |-> "pending", fn |-> "validateAuth", request |-> h]
       \/ \E b \in RequestBodies :
             last = [op |-> "pending", fn |-> "validateRequest", body |-> b]
       \/ \E x \in PostInputs :
             last = [op |-> "pending", fn |-> "POST", input |-> x]
       \/ \E o \in Outputs : \E a \in ParseActions :
             last = [op |-> "pending", fn |-> "parseOutput", output |-> o,
                     action |-> a]
       \/ \E x \in ClientIdRequests :
             last = [op |-> "pending", fn |-> "generateClientId",
                     request |-> x]

\* what a call leaves alone
callFrame ==
    UNCHANGED <<now, windowMs, maxRequests, skipSuccessfulRequests, requests,
                nextSweep, admitted, denied, unswept, stopped, timeout,
                maxRetries, rq>>

\* validateAuth is applied to a request
CallValidateAuth ==
    /\ last.op = "pending" /\ last.fn = "validateAuth"
    /\ last' = [op |-> "validateAuth", request |-> last.request,
                result |-> validateAuth(last.request)]
    /\ callFrame

\* validateRequest is applied to a parsed body
CallValidateRequest ==
    /\ last.op = "pending" /\ last.fn = "validateRequest"
    /\ last' = [op |-> "validateRequest", body |-> last.body,
                result |-> validateRequest(last.body)]
    /\ callFrame

\* POST answers a request
CallPost ==
    /\ last.op = "pending" /\ last.fn = "POST"
    /\ last' = [op |-> "POST", input |-> last.input,
                response |-> postResponse(last.input)]
    /\ callFrame

\* parseOutput is applied to the stdout of a subprocess
CallParseOutput ==
    /\ last.op = "pending" /\ last.fn = "parseOutput"
    /\ last' = [op |-> "parseOutput", output |-> last.output,
                action |-> last.action,
                result |-> parseOutput(last.output, last.action)]
    /\ callFrame

\* generateClientId is applied to a request
CallGenerateClientId ==
    /\ last.op = "pending" /\ last.fn = "generateClientId"
    /\ last' = [op |-> "generateClientId", request |-> last.request,
                result |-> generateClientIdText(last.request)]
    /\ callFrame

NextCalls ==
    \/ CallValidateAuth
    \/ CallValidateRequest
    \/ CallPost
    \/ CallParseOutput
    \/ CallGenerateClientId

SpecCalls == InitCalls /\ [][NextCalls]_vars

\* ------------------------------------------------------ RateLimiter claims
\* the timestamps of xs that lie in the trailing window of the instant at
Counted(xs, at) == SelectSeq(xs, LAMBDA t : Within(t, at))

\* the timestamps of xs that are windowMs old or older at the instant at
Stale(xs, at) == SelectSeq(xs, LAMBDA t : t <= at - windowMs)

\* the least element of a non-empty sequence of numbers
Earliest(xs) ==
    CHOOSE t \in { xs[i] : i \in 1 .. Len(xs) } :
        \A i \in 1 .. Len(xs) : t <= xs[i]

\* C1 (window bound): with check and cleanup as the only operations, a check
\* of a client made while maxRequests of its admitted checks are less than
\* windowMs old is denied.
WindowBound ==
    (last.op = "check" /\ last.prior >= maxRequests) => ~last.res.allowed

WindowBoundWitness ==
    /\ last.op = "check"
    /\ last.prior >= maxRequests
    /\ ~last.res.allowed
    /\ nextSweep > windowMs

\* C2 (re-admission): when the latest check of a client was denied with
\* oldest counted timestamp o, its next check, if made at now >= o + windowMs,
\* is admitted.
ReAdmission ==
    (/\ last.op = "check"
     /\ last.wasDenied # -1
     /\ last.t >= last.wasDenied + windowMs) => last.res.allowed

ReAdmissionWitness ==
    /\ last.op = "check"
    /\ last.wasDenied # -1
    /\ last.t = last.wasDenied + windowMs
    /\ last.res.allowed

\* the part of a RateLimitResult that C3 speaks of
Decision(res) == <<res.allowed, res.remaining>>

\* the sequences of at most two instants that are stale at the instant at
StaleSeqs(at) ==
    LET old == { t \in Instants(windowMs) : t <= at - windowMs }
    IN  { <<t>> : t \in old } \cup { <<t, u>> : t \in old, u \in old }

\* C3 (pruning correctness): the decision and the remaining value of a check
\* depend only on the stored timestamps t > now - windowMs: they are the same
\* with stale timestamps added to the bucket (in front or behind), with the
\* stale ones removed, and after a cleanup; and the check just made decided
\* as it would have on the bucket without its stale timestamps.
PruningCorrectness ==
    /\ \A c \in Clients :
          LET bucket == MapGet(requests, c)
              d == Decision(checkResult(requests, c, now))
              With(b) == Decision(checkResult(MapSet(requests, c, b), c, now))
          IN  /\ With(Counted(bucket, now)) = d
              /\ Decision(checkResult(cleanupStore(requests, now), c, now)) = d
              /\ \A extra \in StaleSeqs(now) :
                    /\ With(extra \o bucket) = d
                    /\ With(bucket \o extra) = d
    /\ last.op = "check" =>
          Decision(last.res) =
            Decision(checkResult(
                MapSet(<< >>, last.clientId, Counted(last.pre, last.t)),
                last.clientId, last.t))

PruningCorrectnessWitness ==
    /\ last.op = "check"
    /\ Len(Stale(last.pre, last.t)) > 0
    /\ Len(Counted(last.pre, last.t)) > 0
    /\ last.res.allowed
    /\ StaleSeqs(now) # {}

\* C4 (decision values): a denied check returns remaining = 0 and
\* resetTime = max(0, earliest counted timestamp + windowMs - now); an
\* admitted check leaves the bucket as its counted timestamps followed by now
\* and returns remaining = maxRequests - (their number + 1), within
\* 0 .. maxRequests - 1; and with windowMs = 60000, maxRequests = 2 the
\* checks of a client at 0, 10, 20, 61000 give (allowed, 1), (allowed, 0),
\* (denied, reset 59980), (allowed).
DecisionValues ==
    last.op = "check" =>
      LET counted == Counted(last.pre, last.t)
          bucket == MapGet(requests, last.clientId)
          res == last.res
          step(t, pre) == last.t = t /\ last.pre = pre
      IN  /\ ~res.allowed =>
                /\ res.remaining = 0
                /\ res.resetTime =
                      Max(0, Earliest(counted) + windowMs - last.t)
          /\ res.allowed =>
                /\ bucket = Append(counted, last.t)
                /\ res.remaining = maxRequests - (Len(counted) + 1)
                /\ res.remaining \in 0 .. maxRequests - 1
          /\ (windowMs = 60000 /\ maxRequests = 2) =>
                /\ step(0, << >>) =>
                      res.allowed /\ res.remaining = 1 /\ bucket = <<0>>
                /\ step(10, <<0>>) =>
                      res.allowed /\ res.remaining = 0 /\ bucket = <<0, 10>>
                /\ step(20, <<0, 10>>) =>
                      /\ ~res.allowed
                      /\ res.resetTime = 59980
                      /\ bucket = <<0, 10>>
                /\ step(61000, <<0, 10>>) => res.allowed

DecisionValuesWitness ==
    /\ windowMs = 60000 /\ maxRequests = 2
    /\ last.op = "check"
    /\ last.t = 61000
    /\ last.pre = <<0, 10>>
    /\ last.wasDenied = 0
    /\ last.res.allowed

\* C5 (RateWindow invariant): right after a check returned allowed = true,
\* the client's stored timestamps lying in (now - windowMs, now] number at
\* most maxRequests, whatever checks, recordSuccess calls and cleanups
\* of any clients came before.
RateWindowInvariant ==
    (last.op = "check" /\ last.res.allowed) =>
        Len(Counted(MapGet(requests, last.clientId), now)) <= maxRequests

RateWindowInvariantWitness ==
    /\ last.op = "check" /\ last.res.allowed
    /\ Len(Counted(MapGet(requests, last.clientId), now)) = maxRequests
    /\ skipSuccessfulRequests
    /\ Len(last.pre) > Len(Counted(last.pre, now))
    /\ nextSweep > windowMs

\* ---------------------------------------------------- ClaudeWrapper claims
\* the attempts of q whose subprocess closes with code 0
OkAttempts(q) == { a \in 1 .. Len(q.child) : q.child[a].kind = "ok" }

\* execute has returned or thrown after at least one attempt
Executed(q) == q.pc \in {"cleanup", "done"} /\ q.attempt >= 1

\* C6 (retry convergence): when the subprocess fails on its first k attempts
\* and succeeds on attempt k + 1, execute succeeds, with the output of
\* attempt k + 1, exactly when k + 1 <= maxRetries; otherwise it fails after
\* exactly maxRetries attempts. It never makes more than maxRetries attempts
\* and makes no attempt after a successful one.
RetryConvergence ==
    \A r \in DOMAIN rq :
        LET q == rq[r]
            n == Len(q.child)
        IN  /\ n <= maxRetries
            /\ q.attempt = n
            /\ \A a \in OkAttempts(q) : a = n
            /\ Executed(q) => q.outcome \in {"ok", "ExecutionFailed"}
            /\ Executed(q) =>
                  (q.outcome = "ok" <=> OkAttempts(q) # {})
            /\ q.outcome = "ok" => q.output = n /\ q.output \in OkAttempts(q)
            /\ q.outcome = "ExecutionFailed" => n = maxRetries

RetryConvergenceWitness ==
    \E r \in DOMAIN rq :
        /\ maxRetries = TopRetries
        /\ rq[r].pc = "done"
        /\ rq[r].outcome = "ok"
        /\ rq[r].output = maxRetries
        /\ rq[r].child[1].kind = "exit1"
        /\ rq[r].child[2].kind = "hang"

\* the requested delay after failed attempt a
Delay(a) == BackoffBase * 2 ^ (a - 1)

\* C7 (backoff schedule): after failed attempt a, with a < maxRetries, the
\* wrapper waits BackoffBase * 2^(a-1) ms, counted from the failure, before
\* attempt a + 1 starts; each delay is twice the one before; after the
\* failure of attempt maxRetries no wait is made.
BackoffSchedule ==
    /\ [](\A r \in DOMAIN rq :
            LET q == rq[r]
            IN  /\ \A i \in 1 .. Len(q.waits) : q.waits[i] = Delay(i)
                /\ \A i \in 1 .. Len(q.waits) - 1 :
                      q.waits[i + 1] = 2 * q.waits[i]
                /\ Len(q.waits) =
                      IF q.pc = "backoff" THEN q.attempt
                      ELSE Max(q.attempt - 1, 0)
                /\ q.pc = "backoff" => q.attempt < maxRetries
                /\ q.outcome = "ExecutionFailed" =>
                      /\ q.attempt = maxRetries
                      /\ Len(q.waits) = maxRetries - 1
                      /\ q.wake = -1)
    /\ [][\A r \in DOMAIN rq :
            /\ Len(rq'[r].waits) # Len(rq[r].waits) =>
                  /\ rq'[r].waits = Append(rq[r].waits, Delay(rq'[r].attempt))
                  /\ rq'[r].pc = "backoff"
                  /\ rq'[r].wake = now + Delay(rq'[r].attempt)
            /\ (rq'[r].attempt # rq[r].attempt /\ rq[r].attempt >= 1) =>
                  /\ rq[r].pc = "backoff"
                  /\ now >= rq[r].wake
                  /\ rq'[r].attempt = rq[r].attempt + 1]_vars

BackoffScheduleWitness ==
    \E r \in DOMAIN rq :
        /\ maxRetries = TopRetries
        /\ rq[r].pc = "done"
        /\ rq[r].outcome = "ExecutionFailed"
        /\ Len(rq[r].waits) = TopRetries - 1
        /\ rq[r].waits[1] = 1000
        /\ rq[r].waits[2] = 2000
        /\ now >= 3000

\* C8 (timeout enforcement): in every state where the timeout failure of an
\* attempt has been reported, and so when execute has returned, the
\* subprocess of that attempt is no longer running.
TimeoutEnforcement ==
    \A r \in DOMAIN rq :
        \A a \in 1 .. Len(rq[r].child) :
            rq[r].child[a].term => rq[r].child[a].state # "running"

\* C9 (temp workspace cleanup): when execute has returned or thrown, a
\* workspace that was created has had its removal attempted; and the
\* removal, failed or not, leaves execute's outcome as it was: a success
\* is answered as a success, a failure keeps its error.
WorkspaceCleanup ==
    /\ [](\A r \in DOMAIN rq :
            LET q == rq[r]
            IN  /\ (q.pc = "done" /\ q.tempDir) => q.rmTried
                /\ q.dir = "present" => q.tempDir
                /\ (q.pc = "done" /\ q.outcome # "none") =>
                      (q.response = "OK" <=> q.outcome = "ok")
                /\ q.rmTried => q.pc = "done" /\ q.outcome # "none")
    /\ [][\A r \in DOMAIN rq :
            rq[r].pc = "cleanup" =>
                /\ rq'[r].outcome = rq[r].outcome
                /\ rq'[r].lastError = rq[r].lastError
                /\ rq'[r].output = rq[r].output]_vars

WorkspaceCleanupWitness ==
    \E r \in DOMAIN rq :
        /\ rq[r].pc = "done"
        /\ rq[r].rmTried
        /\ rq[r].dir = "present"
        /\ rq[r].outcome = "ok"
        /\ rq[r].response = "OK"

\* ----------------------------------------------------- POST handler claims
\* the error codes of the rejections made before execute is called
PreSpawnCodes == {"UNAUTHORIZED", "RATE_LIMIT_EXCEEDED", "INVALID_REQUEST"}

\* C10 (pre-spawn rejection): a request answered with UNAUTHORIZED,
\* RATE_LIMIT_EXCEEDED or INVALID_REQUEST has spawned no subprocess, created
\* no temp workspace and made no retry at any point of its handling.
PreSpawnRejection ==
    \A r \in DOMAIN rq :
        rq[r].response \in PreSpawnCodes =>
            /\ rq[r].child = << >>
            /\ rq[r].attempt = 0
            /\ rq[r].waits = << >>
            /\ ~rq[r].tempDir
            /\ rq[r].dir = "absent"
            /\ ~rq[r].rmTried

PreSpawnRejectionWitness ==
    \E r, p \in DOMAIN rq :
        /\ rq[r].response = "RATE_LIMIT_EXCEEDED"
        /\ rq[p].response = "INVALID_REQUEST"
        /\ rq[r].clientId = rq[p].clientId

\* C11 (rejection has no side effects): a request answered with
\* UNAUTHORIZED, RATE_LIMIT_EXCEEDED or INVALID_REQUEST has left the
\* limiter's store of timestamps as it was: its handling appended and
\* removed nothing.
RejectionNoSideEffects ==
    \A r \in DOMAIN rq :
        rq[r].response \in PreSpawnCodes => ~rq[r].wrote

\* validateAuth has run for the request q
Authenticated(q) == q.pc # "idle"

\* rateLimiter.check has run for the request q
RateChecked(q) == q.authValid /\ q.pc \notin {"idle", "auth"}

\* C12 (pipeline order): the stages run in the order validate shape,
\* authenticate, rate-limit check, execute, each only after the one before
\* it succeeded; so a request answered INVALID_REQUEST has had neither
\* authenticate nor check run.
PipelineOrder ==
    \A r \in DOMAIN rq :
        LET q == rq[r]
        IN  /\ q.response = "INVALID_REQUEST" =>
                  ~Authenticated(q) /\ ~RateChecked(q)
            /\ q.response = "UNAUTHORIZED" =>
                  q.body = "valid" /\ ~RateChecked(q)
            /\ q.response = "RATE_LIMIT_EXCEEDED" =>
                  q.body = "valid" /\ q.authValid
            /\ (q.attempt >= 1 \/ q.tempDir) =>
                  /\ q.body = "valid" /\ q.authValid
                  /\ RateChecked(q) /\ q.rate.allowed

\* the error codes of the closed set
ErrorKinds ==
    PreSpawnCodes \cup
        {"TIMEOUT_ERROR", "EXECUTION_ERROR", "INTERNAL_SERVER_ERROR"}

\* C13 (execution failure kinds): when every attempt failed, execute fails
\* carrying the last attempt's failure, and the response's error code is
\* TIMEOUT_ERROR when that failure was the timeout and EXECUTION_ERROR
\* otherwise, never INTERNAL_SERVER_ERROR; every code is of the closed set.
ExecutionFailureKinds ==
    \A r \in DOMAIN rq :
        LET q == rq[r]
        IN  /\ q.response \in ErrorKinds \cup {"none", "OK"}
            /\ q.outcome = "ExecutionFailed" => q.lastError # "none"
            /\ (q.pc = "done" /\ q.outcome = "ExecutionFailed") =>
                  q.response = IF q.lastError = "timeout"
                               THEN "TIMEOUT_ERROR" ELSE "EXECUTION_ERROR"

\* C20 (malformed body): a request whose body does not parse, or parses to
\* a value that is no object, is answered INVALID_REQUEST, and no
\* subprocess runs for it.
MalformedBody ==
    \A r \in DOMAIN rq :
        (rq[r].pc = "done" /\ rq[r].body \in {"unparseable", "nonobject"}) =>
            /\ rq[r].response = "INVALID_REQUEST"
            /\ rq[r].child = << >>

\* ------------------------------------------------------ validateAuth claims
\* the request carries a bearer credential equal to the shared secret
CredentialMatches(h) ==
    /\ h.authorization.present
    /\ h.authorization.scheme = "Bearer "
    /\ h.authorization.rest = API_SECRET

\* the request carries an Origin
HasOrigin(h) == h.origin # Absent /\ h.origin # ""

\* C15 (auth independence): whatever the Origin, Referer, User-Agent,
\* X-Requested-With and session headers are, a request whose bearer
\* credential is not exactly the shared secret gets valid = false and no
\* clientId.
AuthIndependence ==
    (last.op = "validateAuth" /\ ~CredentialMatches(last.request)) =>
        /\ ~last.result.valid
        /\ last.result.clientId = NoClient

AuthIndependenceWitness ==
    /\ last.op = "validateAuth"
    /\ last.request.authorization.scheme = "Bearer "
    /\ last.request.authorization.rest = "s3cret-key1"
    /\ last.request.origin \in ALLOWED_ORIGINS
    /\ last.request.referer.hostname = "script.google.com"
    /\ includesGas(last.request.userAgent)
    /\ last.request.xRequestedWith = "GoogleAppsScript"
    /\ ~last.result.valid

\* C16 (auth rejection reasons): no authorization header or a scheme other
\* than Bearer is rejected as missing or malformed; a bearer credential
\* that differs from the secret as an invalid key; the right credential
\* with an Origin outside the allow-list as origin not allowed; and origin
\* not allowed is reported only for a request whose credential is right.
AuthRejectionReasons ==
    last.op = "validateAuth" =>
        LET h == last.request
            a == h.authorization
            res == last.result
        IN  /\ (~a.present \/ a.scheme # "Bearer ") =>
                  /\ ~res.valid
                  /\ res.message = "Missing or invalid Authorization header"
            /\ (a.present /\ a.scheme = "Bearer " /\ a.rest # API_SECRET) =>
                  ~res.valid /\ res.message = "Invalid API key"
            /\ (CredentialMatches(h) /\ HasOrigin(h)
                   /\ h.origin \notin ALLOWED_ORIGINS) =>
                  ~res.valid /\ res.message = "Origin not allowed"
            /\ res.message = "Origin not allowed" => CredentialMatches(h)

AuthRejectionReasonsWitness ==
    /\ last.op = "validateAuth"
    /\ CredentialMatches(last.request)
    /\ last.request.origin = "https://evil.example"
    /\ last.request.referer.hostname = "script.google.com"
    /\ last.result.message = "Origin not allowed"

\* C17 (Referer is a fallback for Origin): with the right credential and an
\* Origin header, the decision is that of the Origin alone, whatever the
\* Referer is; the Referer is checked only when there is no Origin.
RefererFallback ==
    (last.op = "validateAuth" /\ CredentialMatches(last.request)
       /\ HasOrigin(last.request)) =>
        last.result.valid = (last.request.origin \in ALLOWED_ORIGINS)

\* the requests that differ from h in the caller-class headers only
CallerVariants(h) ==
    { [h EXCEPT !.userAgent = u, !.xRequestedWith = x] :
        u \in UserAgents, x \in RequestedWiths }

\* C18 (advisory caller-class check): requests that differ only in
\* X-Requested-With and in the User-Agent get the same valid / invalid
\* decision: the caller check never rejects.
AdvisoryCallerCheck ==
    last.op = "validateAuth" =>
        \A g \in CallerVariants(last.request) :
            validateAuth(g).valid = last.result.valid

AdvisoryCallerCheckWitness ==
    /\ last.op = "validateAuth"
    /\ last.result.valid
    /\ last.result.warned
    /\ \E g \in CallerVariants(last.request) : ~validateAuth(g).warned

\* --------------------------------------------------- validateRequest claims
\* v is present in the body
Given(v) == v.t # "undefined"

\* the bodies C19 says are accepted
WellFormed(b) ==
    /\ b.self.t = "object"
    /\ b.action.t = "string"
    /\ b.action.s \in {"generate", "analyze", "optimize", "review"}
    /\ b.prompt.t = "string"
    /\ Len(b.prompt.s) \in 1 .. MAX_PROMPT_LENGTH
    /\ ~trimmedEmpty(b.prompt.s)
    /\ Given(b.language) => b.language.t = "string"
    /\ Given(b.framework) => b.framework.t = "string"
    /\ Given(b.options) =>
          /\ b.options.t = "object"
          /\ Given(b.includeTests) => b.includeTests.t = "boolean"
          /\ Given(b.includeComments) => b.includeComments.t = "boolean"
          /\ Given(b.codeStyle) =>
                /\ b.codeStyle.t = "string"
                /\ b.codeStyle.s \in {"modern", "legacy"}
          /\ Given(b.maxTokens) =>
                /\ b.maxTokens.t = "number"
                /\ b.maxTokens.n >= 100 /\ b.maxTokens.n <= 8192

\* C19 (request validation): a body is accepted if and only if its action
\* is one of the four, its prompt a string of 1 .. MAX_PROMPT_LENGTH
\* characters that is not blank, language and framework strings when
\* given, and options, when given, an object with boolean includeTests and
\* includeComments, codeStyle modern or legacy, maxTokens a number in
\* 100 .. 8192; any other body is rejected.
RequestValidation ==
    last.op = "validateRequest" =>
        (last.result.valid <=> WellFormed(last.body))

\* ------------------------------------------------------- response claims
\* C14 (uniform envelope): every response carries metadata with timestamp,
\* executionTime and sessionId; with success = true it has data and no
\* error, with success = false an error with code and message and no data;
\* sessionId is the X-Session-ID the caller supplied, else the identifier
\* generated for the request.
UniformEnvelope ==
    last.op = "POST" =>
        LET x == last.input
            res == last.response
        IN  /\ "metadata" \in res.keys
            /\ res.metadata.keys = {"timestamp", "executionTime", "sessionId"}
            /\ res.success =>
                  "data" \in res.keys /\ "error" \notin res.keys
            /\ ~res.success =>
                  /\ "error" \in res.keys /\ "data" \notin res.keys
                  /\ res.error.keys = {"code", "message"}
                  /\ res.error.code \in ErrorKinds
            /\ res.metadata.sessionId =
                  IF x.sessionHeader \notin {Absent, ""}
                  THEN x.sessionHeader ELSE x.generated

UniformEnvelopeWitness ==
    /\ last.op = "POST"
    /\ last.input.sessionHeader = "sess-A"
    /\ last.input.authValid /\ last.input.allowed
    /\ last.input.body = "valid" /\ ~last.input.executed
    /\ ~last.response.success
    /\ last.response.metadata.sessionId = "sess-A"

\* the response answers an error POST caught
Caught(res) == ~res.success /\ res.error.code = "INTERNAL_SERVER_ERROR"

\* C25 (error-detail confinement), as the code has it: the response to a
\* failed execution or an unexpected error carries the message of the
\* underlying error when NODE_ENV is development, and one fixed text, the
\* same for all failures, in every other context, production included.
ErrorDetailConfinement ==
    (last.op = "POST" /\ Caught(last.response)) =>
        last.response.error.message =
            IF last.input.nodeEnv = "development"
            THEN last.input.errorMessage
            ELSE "An unexpected error occurred"

ErrorDetailConfinementWitness ==
    /\ last.op = "POST" /\ Caught(last.response)
    /\ last.input.nodeEnv = "test"
    /\ last.input.body = "valid" /\ ~last.input.executed
    /\ last.response.error.message = "An unexpected error occurred"

\* C25 as stated: the fixed text in production, and the underlying
\* message in every context that is not production.
ErrorDetailOutsideProduction ==
    (last.op = "POST" /\ Caught(last.response)) =>
        last.response.error.message =
            IF last.input.nodeEnv = "production"
            THEN "An unexpected error occurred"
            ELSE last.input.errorMessage

\* ----------------------------------------------------- concurrency claims
\* the requests of client c whose check was admitted inside the window
LiveAdmitted(c) ==
    { r \in DOMAIN rq : /\ rq[r].clientId = c
                        /\ rq[r].stamp >= 0
                        /\ Within(rq[r].stamp, now) }

\* C26 (recordSuccess targets its own request): with the skip-successful
\* policy on, recordSuccess for a request removes the timestamp that this
\* request's check appended; so the timestamp of an admitted request that
\* has not called recordSuccess stays in its client's bucket while it is
\* inside the window.
RecordSuccessTargets ==
    skipSuccessfulRequests =>
        \A p \in DOMAIN rq :
            (rq[p].stamp >= 0 /\ ~rq[p].recorded
                /\ Within(rq[p].stamp, now)) =>
                \E i \in DOMAIN MapGet(requests, rq[p].clientId) :
                    MapGet(requests, rq[p].clientId)[i] = rq[p].stamp

\* C27 (atomic admission per client): the checks of one client are admitted
\* one after the other against the bucket the one before left: the bucket
\* never holds more than maxRequests timestamps of the window; without the
\* skip-successful policy it holds exactly one timestamp for each admitted
\* request of the window; and a check appends exactly one timestamp when it
\* admits and writes nothing when it denies.
AtomicAdmission ==
    /\ [](\A c \in Clients :
            LET counted == Counted(MapGet(requests, c), now)
            IN  /\ Len(counted) <= maxRequests
                /\ ~skipSuccessfulRequests =>
                      Len(counted) = Cardinality(LiveAdmitted(c)))
    /\ [][\A r \in DOMAIN rq :
            (rq[r].pc = "auth" /\ rq'[r].pc = "rate") =>
                LET c == rq[r].clientId
                    before == Counted(MapGet(requests, c), now)
                IN  IF rq'[r].stamp >= 0
                    THEN /\ Len(before) < maxRequests
                         /\ MapGet(requests', c) = Append(before, now)
                    ELSE /\ Len(before) >= maxRequests
                         /\ requests' = requests]_vars

\* two checks of one client at the same instant with one slot left: one
\* was admitted and is still being served, the other was denied
AtomicAdmissionWitness ==
    /\ now = 0
    /\ \E r, p \in DOMAIN rq :
          /\ r # p
          /\ rq[r].clientId = rq[p].clientId
          /\ rq[r].stamp = 0
          /\ rq[r].pc \notin {"rate", "done"}
          /\ rq[p].response = "RATE_LIMIT_EXCEEDED"

\* C28 (sequential retries): within one execute call at most one subprocess
\* of that call is running at any time: the next attempt is spawned only
\* after the subprocess of the attempt before has exited, also when that
\* attempt ended by timeout.
SequentialRetries ==
    \A r \in DOMAIN rq :
        Cardinality({ a \in DOMAIN rq[r].child :
                        rq[r].child[a].state = "running" }) <= 1

\* C29 (timeout/exit race): an attempt settles once.  An attempt whose
\* timeout fired is never the attempt whose output execute returns, and an
\* event of an attempt that has settled changes nothing of the request but
\* that child's record; once the child has closed or failed the timer is
\* cancelled, and no termination signal is sent to it afterwards.
SettlesOnce ==
    /\ [](\A r \in DOMAIN rq : \A a \in DOMAIN rq[r].child :
            LET c == rq[r].child[a]
            IN  /\ c.term => c.settled /\ rq[r].output # a
                /\ c.state \in {"exited", "dead"} =>
                      c.settled /\ c.timer = -1)
    /\ [][\A r \in DOMAIN rq : \A a \in DOMAIN rq[r].child :
            LET c == rq[r].child[a]
                d == rq'[r].child[a]
            IN  /\ c.settled => d.settled
                /\ (c.settled /\ d # c) =>
                      [rq'[r] EXCEPT !.child = rq[r].child] = rq[r]
                /\ (c.state \in {"exited", "dead"} /\ ~c.term) =>
                      ~d.term]_vars

\* the timeout of an attempt fired, the request went on to a later attempt,
\* and the subprocess of the timed-out attempt has exited since
SettlesOnceWitness ==
    \E r \in DOMAIN rq : \E a \in DOMAIN rq[r].child :
        /\ rq[r].child[a].term
        /\ rq[r].child[a].state = "exited"
        /\ rq[r].attempt > a

\* C30 (execute terminates): when every subprocess eventually exits, fails
\* or reaches its timeout, a request that has arrived is eventually
\* answered, and execute has then started at most maxRetries attempts.
ExecuteTerminates ==
    /\ [](\A r \in Faulty :
            rq[r].attempt <= maxRetries /\ Len(rq[r].child) <= maxRetries)
    /\ \A r \in Faulty :
          (rq[r].pc # "idle") ~>
              (rq[r].pc = "done" /\ rq[r].response # "none")

\* execute has thrown after maxRetries attempts that all timed out, and the
\* request is answered
ExecuteTerminatesWitness ==
    \E r \in DOMAIN rq :
        /\ maxRetries >= 2
        /\ rq[r].pc = "done" /\ rq[r].response # "none"
        /\ rq[r].outcome = "ExecutionFailed"
        /\ Len(rq[r].child) = maxRetries
        /\ \A a \in DOMAIN rq[r].child : rq[r].child[a].term

\* ------------------------------------------------------ parseOutput claims
\* parseOutput has been applied
Parsed == last.op = "parseOutput"

\* C21 (extraction fallback and totality): parseOutput returns a result for
\* every text, the empty one included, and every action; when the rules of
\* the action left code, analysis and explanation without text, the
\* explanation is the raw text verbatim, and otherwise the result is what
\* the rules of the action produced; the result is determined by the text
\* and the action.
ExtractionFallback ==
    Parsed =>
        LET byRules == actionResult(last.output, last.action)
            res == last.result
        IN  /\ res.code = byRules.code
            /\ res.analysis = byRules.analysis
            /\ res.suggestions = byRules.suggestions
            /\ res.explanation =
                  IF /\ falsy(byRules.code) /\ falsy(byRules.analysis)
                     /\ falsy(byRules.explanation)
                  THEN Assigned(last.output)
                  ELSE byRules.explanation
            /\ ~(falsy(res.code) /\ falsy(res.analysis)
                    /\ falsy(res.explanation)) \/ last.output = << >>

\* the fallback made the explanation of a text that begins or ends with
\* white space
ExtractionFallbackWitness ==
    /\ Parsed
    /\ last.action = "optimize"
    /\ falsy(last.result.code)
    /\ last.result.explanation = Assigned(last.output)
    /\ trim(last.output) # last.output

\* C22 (extraction of empty input): parseOutput of the empty text returns,
\* for every action, a result whose explanation is the empty string and
\* whose code, analysis and suggestions are unset.
EmptyInput ==
    (Parsed /\ last.output = << >>) =>
        /\ last.result.explanation = Assigned(<< >>)
        /\ ~last.result.code.set
        /\ ~last.result.analysis.set
        /\ ~last.result.suggestions.set

\* the text is one fenced block: a fence line, the lines of the content,
\* and a fence line
SingleFencedBlock(output) ==
    LET lines == split(output)
    IN  /\ Len(lines) >= 3
        /\ startsWith(lines[1], Fence)
        /\ lines[Len(lines)] = Fence
        /\ \A i \in 2 .. Len(lines) - 1 : ~startsWith(lines[i], Fence)

\* C23 (extraction of code): for generate and optimize, a text with exactly
\* one fenced block of content X yields the code trim(X); with several
\* fenced blocks the code is the first; and for generate a text that is a
\* single fenced block yields a non-empty explanation too.
CodeExtraction ==
    (Parsed /\ last.action \in {"generate", "optimize"}) =>
        LET blocks == codeBlocksFrom(last.output, 1)
        IN  /\ Len(blocks) >= 1 =>
                  last.result.code = Assigned(trim(blocks[1]))
            /\ (last.action = "generate"
                    /\ SingleFencedBlock(last.output)) =>
                  ~falsy(last.result.explanation)

\* the line with its list marker removed: the bullet and the spaces after
\* it, or the digits, the dot and the spaces after it
WithoutMarker(line) ==
    IF line[1] \in {"-", "*"}
    THEN trim(SubSeq(line, 2, Len(line)))
    ELSE trim(SubSeq(line, runOf(line, 1, Digits) + 2, Len(line)))

\* C24 (extraction of suggestions): for optimize, analyze and review the
\* suggestions are the lines that start with a bullet or a numbered marker,
\* each with its marker stripped, in the order of the lines and with
\* repetitions; no other line contributes.
SuggestionExtraction ==
    (Parsed /\ last.action \in {"optimize", "analyze", "review"}) =>
        LET items == SelectSeq(split(last.output), isListItem)
        IN  last.result.suggestions =
                Assigned([i \in 1 .. Len(items) |-> WithoutMarker(items[i])])

\* ------------------------------------------------- limiter and handler claims
\* the timestamp the check of request r appended is in its client's bucket
StampStored(r) ==
    \E i \in DOMAIN MapGet(requests, rq[r].clientId) :
        MapGet(requests, rq[r].clientId)[i] = rq[r].stamp

\* C34 (recordSuccess is called only on success): recordSuccess is called
\* for a request only after its execute returned a result; a request that
\* was rejected or whose execution failed never calls it, so the timestamp
\* its check appended stays in the bucket while it is inside the window;
\* and without the skip-successful policy the timestamp of every admitted
\* request stays there.
RecordSuccessOnlyOnSuccess ==
    \A r \in DOMAIN rq :
        /\ rq[r].recorded =>
              rq[r].outcome = "ok" /\ rq[r].response = "OK"
        /\ (rq[r].pc = "done" /\ rq[r].response # "OK") =>
              /\ ~rq[r].recorded
              /\ (rq[r].stamp >= 0 /\ Within(rq[r].stamp, now)) =>
                    StampStored(r)
        /\ (~skipSuccessfulRequests /\ rq[r].stamp >= 0
                /\ Within(rq[r].stamp, now)) => StampStored(r)

\* C36 (non-blocking execution): while a request waits for its subprocess
\* or for a retry's backoff delay, the steps of another request before its
\* execute call (authenticate, rate-limit check, reading and validating
\* the body) can be taken, and so can a sweep that is due: the waiting
\* request does not hold the limiter's store.
NonBlockingExecution ==
    \A r \in DOMAIN rq :
        rq[r].pc \in {"running", "backoff"} =>
            /\ now >= nextSweep => ENABLED Sweep
            /\ \A p \in DOMAIN rq \ {r} :
                  /\ rq[p].pc = "idle" => ENABLED Arrive(p)
                  /\ rq[p].pc = "auth" => ENABLED AfterAuth(p)
                  /\ rq[p].pc = "rate" => ENABLED AfterRate(p)
                  /\ rq[p].pc = "json" => ENABLED AfterJson(p)

\* a request is still waiting for the subprocess of its first attempt, and
\* another request, checked by the limiter after that subprocess was
\* spawned, has been answered
NonBlockingExecutionWitness ==
    \E r \in DOMAIN rq : \E p \in DOMAIN rq \ {r} :
        /\ rq[r].pc = "running"
        /\ Len(rq[r].child) = 1
        /\ rq[r].child[1].timer # -1
        /\ rq[r].child[1].timer - timeout < rq[p].stamp
        /\ rq[p].pc = "done"
        /\ rq[p].response = "OK"

\* the buckets another client may have at the instant at
OtherBuckets(at) == { << >>, <<0>>, <<at>>, <<0, at>> }

\* the store reqs with the bucket of client b removed
Without(reqs, b) == [k \in DOMAIN reqs \ {b} |-> reqs[k]]

\* C35 (cross-client independence): what check and recordSuccess return and
\* leave for a client is the same whatever the bucket of another client
\* holds, present or not; and a check or a recordSuccess of a client leaves
\* the bucket of every other client as it was.
CrossClientIndependence ==
    /\ [](\A c \in Clients : \A b \in Clients \ {c} :
            \A other \in { MapSet(requests, b, x) : x \in OtherBuckets(now) }
                            \cup { Without(requests, b) } :
                /\ checkResult(other, c, now) = checkResult(requests, c, now)
                /\ MapGet(checkStore(other, c, now), c) =
                      MapGet(checkStore(requests, c, now), c)
                /\ MapGet(recordSuccessStore(other, c), c) =
                      MapGet(recordSuccessStore(requests, c), c))
    /\ [][last'.op \in {"check", "recordSuccess"} =>
            \A b \in Clients \ {last'.clientId} :
                /\ b \in DOMAIN requests' <=> b \in DOMAIN requests
                /\ MapGet(requests', b) = MapGet(requests, b)]_vars

\* recordSuccess has emptied the bucket of a client while another client
\* has timestamps stored
CrossClientIndependenceWitness ==
    /\ last.op = "recordSuccess"
    /\ skipSuccessfulRequests
    /\ last.clientId \in DOMAIN requests
    /\ requests[last.clientId] = << >>
    /\ \E b \in Clients \ {last.clientId} : Len(MapGet(requests, b)) > 0

\* C31 (sweep transparency): a cleanup removes the timestamps
\* t <= now - windowMs and the buckets left without a timestamp of the
\* window, and keeps every timestamp of the window of every client; and
\* whatever checks were made, with cleanups in between at any points, a
\* check returns (allowed, remaining, resetTime) as it would had no
\* cleanup run.
SweepTransparency ==
    /\ [](\A c \in Clients :
            /\ checkResult(requests, c, now) = checkResult(unswept, c, now)
            /\ Counted(MapGet(requests, c), now) =
                  Counted(MapGet(unswept, c), now))
    /\ [][last'.op = "cleanup" =>
            \A c \in Clients :
                /\ MapGet(requests', c) = Counted(MapGet(requests, c), now)
                /\ c \in DOMAIN requests' <=>
                      Len(Counted(MapGet(requests, c), now)) > 0]_vars

\* a cleanup has just removed timestamps from a bucket and kept others:
\* the store without cleanups holds more of that client than the store
SweepTransparencyWitness ==
    /\ last.op = "cleanup"
    /\ \E c \in Clients :
          /\ Len(MapGet(requests, c)) > 0
          /\ Len(MapGet(unswept, c)) > Len(MapGet(requests, c))
          /\ checkResult(unswept, c, now).remaining < maxRequests - 1

\* the last instant the clock reaches
Horizon ==
    CHOOSE t \in Instants(windowMs) : \A u \in Instants(windowMs) : u <= t

\* the next cleanup falls due when the bucket of client c, as it is, holds
\* no timestamp of the window, and before the clock stops
SweepWillFind(c) ==
    LET bucket == requests[c]
        expiry == IF Len(bucket) = 0 THEN now
                  ELSE bucket[Len(bucket)] + windowMs
    IN  expiry <= nextSweep /\ nextSweep <= Horizon

\* C32 (bounded store): right after a cleanup no bucket is empty and no
\* stored timestamp is older than the window; and the bucket of a client
\* that is admitted no more, a bucket emptied by recordSuccess included, is
\* removed from the store by the first cleanup due after its last
\* timestamp left the window.
BoundedStore ==
    /\ [](last.op = "cleanup" =>
            \A c \in DOMAIN requests :
                /\ Len(requests[c]) > 0
                /\ \A i \in DOMAIN requests[c] : Within(requests[c][i], now))
    /\ \A c \in Clients :
          (c \in DOMAIN requests /\ SweepWillFind(c)) ~>
              \/ c \notin DOMAIN requests
              \/ last.op = "check" /\ last.clientId = c /\ last.res.allowed

\* a cleanup has just removed a bucket that recordSuccess had emptied
BoundedStoreWitness ==
    /\ last.op = "cleanup"
    /\ \E c \in Clients :
          /\ c \in DOMAIN unswept
          /\ unswept[c] = << >>
          /\ c \notin DOMAIN requests

\* C33 (stoppable sweep): once the limiter has been stopped, at shutdown or
\* in the teardown of a test, no cleanup runs any more: the background task
\* does not touch the store.
StoppableSweep == stopped => last.op # "cleanup"

\* two requests with the same source address, user-agent and session id
sameIdentity(x, y) ==
    /\ ipOf(x) = ipOf(y)
    /\ userAgentTextOf(x) = userAgentTextOf(y)
    /\ sessionTextOf(x) = sessionTextOf(y)

\* client_ and then digits of radix 36, one at least, and no sign
wellFormedId(id) ==
    /\ Len(id) > Len(ClientPrefix)
    /\ SubSeq(id, 1, Len(ClientPrefix)) = ClientPrefix
    /\ \A i \in Len(ClientPrefix) + 1 .. Len(id) :
          \E d \in DOMAIN Digits36 : id[i] = Digits36[d]

\* C37 (deterministic client identity): the clientId is a function of the
\* source address, the user-agent and the session id only: every request
\* with the same three gets the same clientId, whichever field or header
\* carries them and whatever else it carries; and the 32-bit hash always
\* ends in a well-formed identifier without a sign.
DeterministicClientIdentity ==
    last.op = "generateClientId" =>
        /\ wellFormedId(last.result)
        /\ \A y \in ClientIdRequests :
              sameIdentity(y, last.request) =>
                  generateClientIdText(y) = last.result

\* the hash of the request is -2^31, the one 32-bit integer whose negation
\* is no 32-bit integer, and another request has the same identity
DeterministicClientIdentityWitness ==
    /\ last.op = "generateClientId"
    /\ hashOf(rawStringOf(last.request)) = -2147483647 - 1
    /\ last.result = ClientPrefix \o <<"z", "i", "k", "0", "z", "k">>
    /\ ~last.request.ip.present
    /\ \E y \in ClientIdRequests :
          /\ y.ip.present /\ y.accept # last.request.accept
          /\ sameIdentity(y, last.request)
====
